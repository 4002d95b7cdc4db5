------------------------------ MODULE MCTaskSync ------------------------------
(***************************************************************************)
(* TaskSync for TLC: a plan of two tasks, and one that gives the first     *)
(* task a new frame and drops the second.                                  *)
(***************************************************************************)
EXTENDS TaskSync

Task(id, revision, frame) == [id |-> id, revision |-> revision, frame |-> frame]
MCPlans == << <<Task("t1", 1, "f1"), Task("t2", 1, "f2")>>, <<Task("t1", 2, "f3")>> >>

MCUploaded == [task |-> "local", frame |-> "u1"]
MCOld == [task |-> "local", frame |-> "u0"]
MCAlbum == [assets |-> <<MCOld>>, current |-> MCOld]
=============================================================================
