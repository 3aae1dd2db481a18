----------------------------- MODULE TargetPromise -----------------------------
(***************************************************************************)
(* What the target driver promises to its initiators, without flags, locks *)
(* or callbacks: it serves one command at a time, in pieces of at most     *)
(* Buffer bytes, may put it aside between two pieces, and ends it when all *)
(* bytes have moved or when it is terminated.  A command that is aside and *)
(* terminated twice upsets the target: it promises nothing until it is     *)
(* free again.                                                             *)
(***************************************************************************)
EXTENDS Integers

CONSTANTS Nexus, NoNexus, Buffer

VARIABLES
    owner,      \* the nexus whose command is served
    left,       \* bytes it still has to move
    aside,      \* whether it is disconnected
    upset       \* whether the target is upset

servedVars == <<owner, left, aside>>
promiseVars == <<owner, left, aside, upset>>

Free == owner = NoNexus /\ left = 0 /\ aside = FALSE

PromiseInit == Free /\ upset = FALSE

Accept(n) ==
    /\ Free
    /\ owner' = n
    /\ left' \in Nat \ {0}
    /\ UNCHANGED aside

MovePiece ==
    /\ owner # NoNexus
    /\ ~aside
    /\ left' < left
    /\ left - left' <= Buffer
    /\ left' > 0
    /\ UNCHANGED <<owner, aside>>

MoveLast ==
    /\ owner # NoNexus
    /\ ~aside
    /\ left <= Buffer
    /\ Free'

PutAside ==
    /\ owner # NoNexus
    /\ ~aside
    /\ aside' = TRUE
    /\ UNCHANGED <<owner, left>>

TakeUp ==
    /\ aside
    /\ aside' = FALSE
    /\ UNCHANGED <<owner, left>>

Terminate == owner # NoNexus /\ Free'

Serve ==
    \/ \E n \in Nexus : Accept(n)
    \/ MovePiece
    \/ MoveLast
    \/ PutAside
    \/ TakeUp
    \/ Terminate

\* What an upset target serves, and how, is left open.
BeUpset == upset' = TRUE

Settle == upset /\ upset' = FALSE /\ Free'

PromiseNext ==
    \/ ~upset /\ Serve /\ UNCHANGED upset
    \/ BeUpset
    \/ Settle

PromiseSpec == PromiseInit /\ [][PromiseNext]_promiseVars
=============================================================================
