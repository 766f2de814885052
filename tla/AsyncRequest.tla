---------------------------- MODULE AsyncRequest ----------------------------
(***************************************************************************)
(* What the update machinery promises to the code that requests a          *)
(* download.  A request is submitted once; its callback is entered only    *)
(* while its owner has not cancelled it; the callback either ends the      *)
(* request or asks for another round; a cancelled request disappears       *)
(* silently; and callbacks never overlap, so the code they run may use the *)
(* database and the feed list without locks.                               *)
(*                                                                         *)
(* JobQueue implements this specification.                                 *)
(***************************************************************************)
CONSTANT Requests

VARIABLES
    phase,      \* where each request is in its life
    wanted      \* does the owner still want the answer?

vars == <<phase, wanted>>

Phases == {"idle", "open", "serving", "closed"}

TypeOK ==
    /\ phase \in [Requests -> Phases]
    /\ wanted \in [Requests -> BOOLEAN]

Init ==
    /\ phase = [r \in Requests |-> "idle"]
    /\ wanted = [r \in Requests |-> FALSE]

Move(r, from, to) == phase[r] = from /\ phase' = [phase EXCEPT ![r] = to]

Submit(r) ==
    /\ Move(r, "idle", "open")
    /\ wanted' = [wanted EXCEPT ![r] = TRUE]

\* Any set of unfinished requests is cancelled at once, at any time, even
\* from inside the callback of one of them.
Cancel(S) ==
    /\ \A r \in S : phase[r] \in {"open", "serving"}
    /\ wanted' = [r \in Requests |-> wanted[r] /\ r \notin S]
    /\ UNCHANGED phase

\* The callback is entered: never for an unwanted request, never while
\* another callback is running.
Serve(r) ==
    /\ wanted[r]
    /\ \A q \in Requests : phase[q] # "serving"
    /\ Move(r, "open", "serving")
    /\ UNCHANGED wanted

Again(r) == Move(r, "serving", "open") /\ UNCHANGED wanted

Close(r) == Move(r, "serving", "closed") /\ UNCHANGED wanted

Drop(r) == ~wanted[r] /\ Move(r, "open", "closed") /\ UNCHANGED wanted

Next ==
    \/ \E r \in Requests :
        Submit(r) \/ Serve(r) \/ Again(r) \/ Close(r) \/ Drop(r)
    \/ \E S \in SUBSET Requests : Cancel(S)

Spec == Init /\ [][Next]_vars
=============================================================================
