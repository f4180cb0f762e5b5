--------------------------- MODULE MCNotifications ---------------------------
(* Symmetric instances of Notifications for TLC. *)
EXTENDS Notifications, TLC

\* Deliveries are interchangeable, and so are replicas.
Symmetry == Permutations(Deliveries) \cup Permutations(Workers)
=============================================================================
