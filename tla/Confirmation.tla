---------------------------- MODULE Confirmation ----------------------------
(***************************************************************************)
(* What the confirmation gate promises, whatever the model, the network    *)
(* and the processes do: an action is carried out only while it is the     *)
(* live proposal and the caller's yes was given to that very proposal.  A  *)
(* proposal is known by its number; a number is never used twice.          *)
(***************************************************************************)
EXTENDS Naturals

VARIABLES
    live,     \* the proposal a yes would be about, 0 if there is none
    granted,  \* the proposal the caller's last word said yes to, 0 if none
    used,     \* proposals are numbered from 1 to used
    done      \* proposals that were carried out

vars == <<live, granted, used, done>>

Init == live = 0 /\ granted = 0 /\ used = 0 /\ done = {}

\* A new proposal takes the place of the live one.
Propose ==
    /\ used' = used + 1
    /\ live' = used'
    /\ UNCHANGED <<granted, done>>

\* The caller speaks: yes to the live proposal, or anything else.
Speak == granted' \in {0, live} /\ UNCHANGED <<live, used, done>>

\* Only the live proposal is carried out, and only on a yes to it.
CarryOut ==
    /\ live # 0 /\ granted = live
    /\ done' = done \cup {live}
    /\ UNCHANGED <<live, granted, used>>

\* Its outcome recorded, or a store that forgets: nothing is live any more.
Forget == live' = 0 /\ UNCHANGED <<granted, used, done>>

Next == Propose \/ Speak \/ CarryOut \/ Forget

Spec == Init /\ [][Next]_vars
=============================================================================
