------------------------------ MODULE MCPortal ------------------------------
(* Small instances of the portals' routes and of the administrator's pages in one run.  *)
(* They share no variable, and what a worker's request does to a page is in AdminDesk as  *)
(* a write made elsewhere: the run explores one of them at a time, not their product.     *)
EXTENDS Portal, AdminDesk

VARIABLE part    \* which of them acts

(* The settings page is explored with the two sections whose saves reload each other and   *)
(* refresh the session; sections of a page that share nothing are opened one by one.       *)
SmallPages ==
  {{"organization", "logos"}, {"members"}, {"operational"}, {"workers"}, {"areas"},
   {"vehicles"}, {"geofences", "visits"}, {"trips", "track"}, {"live"}, {"dayTrack"},
   {"history"}, {"dashboard", "workforce"}}

Sum ==
  /\ Init /\ DeskInit
  /\ part \in {"portal", "desk"}
  /\ part = "portal" => open = {"members"}
  /\ part = "desk" => \A v \in Vehicle : held[v] = Free

SumNext ==
  /\ UNCHANGED part
  /\ \/ part = "portal" /\ Next /\ UNCHANGED deskVars
     \/ part = "desk" /\ DeskNext /\ UNCHANGED vars

SumSpec == Sum /\ [][SumNext]_<<part, vars, deskVars>>
=============================================================================
