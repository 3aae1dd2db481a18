-------------------------------- MODULE MCFlash --------------------------------
(* Instances of Flash for TLC: three words of two bits. *)
EXTENDS Flash

Data(addr, data) == [kind |-> "data", addr |-> addr, data |-> data]
Blank == [kind |-> "blank"]
Invalid == [kind |-> "invalid"]

\* No line; a line of one word and one of two with a word left out or programmed
\* twice (first more bits cleared and then fewer, the other way round, and the
\* same); a blank line between them; a line that is not hex; a line that runs over
\* the end of the device, and one that lies behind it.
MCFiles ==
    { <<>>,
      <<Data(0, <<{"a"}>>), Blank, Data(1, <<{}, {"a", "b"}>>)>>,
      <<Data(2, <<{"b"}>>)>>,
      <<Data(0, <<{"a"}, {}>>), Data(1, <<{"b"}>>)>>,
      <<Data(0, <<{"a", "b"}, {"b"}>>), Data(1, <<{}>>)>>,
      <<Data(1, <<{"b"}>>), Data(1, <<{"b"}>>)>>,
      <<Data(0, <<{}>>), Invalid, Data(1, <<{}>>)>>,
      <<Data(2, <<{"b"}, {}>>), Data(0, <<{"a"}>>)>>,
      <<Data(1, <<{"b"}>>), Data(4, <<{"a"}>>)>> }
================================================================================
