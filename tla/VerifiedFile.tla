---------------------------- MODULE VerifiedFile ----------------------------
(***************************************************************************)
(* What the download queue promises about one queued file, whatever        *)
(* segments it asks for, from whom and in which order:                     *)
(*   - the verified part of the file only grows, except that all of it is  *)
(*     forgotten when the temporary file is gone, or falls back to what    *)
(*     was last saved when the program is restarted;                       *)
(*   - the file is complete only when every byte has been verified;        *)
(*   - a complete file is fetched again only after a restart that found    *)
(*     it unfinished in the saved queue.                                   *)
(***************************************************************************)
EXTENDS Naturals

CONSTANT AllBytes      \* the bytes of the file

VARIABLES
  have,      \* bytes downloaded and verified
  saved,     \* what the saved queue says of have and status
  present,   \* the temporary file exists
  status     \* "queued", "complete" or "removed"

vars == <<have, saved, present, status>>

Init ==
  /\ have = {}
  /\ saved = [have |-> {}, status |-> "removed"]    \* not saved yet
  /\ present = FALSE
  /\ status = "queued"

\* Some bytes more have been verified, not yet all of them.
Gain ==
  /\ status = "queued"
  /\ present
  /\ \E S \in SUBSET AllBytes : have' = have \cup S /\ have' # AllBytes
  /\ UNCHANGED <<saved, present, status>>

\* The last bytes have been verified: the file is complete, and the
\* temporary file may be gone in the same step (it has become the target).
Complete ==
  /\ status = "queued"
  /\ present
  /\ have' = AllBytes
  /\ status' = "complete"
  /\ present' \in BOOLEAN
  /\ UNCHANGED saved

\* The temporary file is created.
Create ==
  /\ ~present
  /\ present' = TRUE
  /\ UNCHANGED <<have, saved, status>>

\* The temporary file disappears, or leaves for the target.
Vanish ==
  /\ present
  /\ present' = FALSE
  /\ UNCHANGED <<have, saved, status>>

\* Without a temporary file what was verified is worth nothing.
Forget ==
  /\ status = "queued"
  /\ ~present
  /\ have' = {}
  /\ UNCHANGED <<saved, present, status>>

Save ==
  /\ saved' = [have |-> have, status |-> status]
  /\ UNCHANGED <<have, present, status>>

\* A restart falls back to what was saved.
Restart ==
  /\ have' = saved.have
  /\ status' = saved.status
  /\ UNCHANGED <<saved, present>>

\* The user takes the file off the queue.
Remove ==
  /\ status' = "removed"
  /\ have' = {}
  /\ present' \in BOOLEAN /\ (present' => present)
  /\ UNCHANGED saved

Next ==
  \/ Gain \/ Complete \/ Create \/ Vanish \/ Forget \/ Save \/ Restart \/ Remove

Spec == Init /\ [][Next]_vars
=============================================================================
