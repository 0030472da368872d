---------------------------- MODULE MCRoomQueue ----------------------------
(* Small instances of RoomQueue: one server and one or two drains. *)
EXTENDS RoomQueue, TLC

ThreeJobs == 1 .. 3
TwoJobs == 1 .. 2
RoomSymmetry == Permutations(Rooms)
=============================================================================
