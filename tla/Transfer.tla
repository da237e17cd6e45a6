------------------------------ MODULE Transfer ------------------------------
(***************************************************************************)
(* What sending a file promises (telegram/uploader.py, parallel_upload.py):*)
(* Telegram stores the parts of the file in any order, and the message     *)
(* that refers to the file goes out once, when it has them all.            *)
(***************************************************************************)
CONSTANT Parts

VARIABLES stored, messages

Init == stored = {} /\ messages = 0

\* More parts arrive; one may arrive again.
Store ==
  /\ stored \subseteq stored' /\ stored' \subseteq Parts
  /\ UNCHANGED messages

Deliver ==
  /\ stored = Parts
  /\ messages = 0
  /\ messages' = 1
  /\ UNCHANGED stored

Next == Store \/ Deliver

Spec == Init /\ [][Next]_<<stored, messages>>
=============================================================================
