------------------------------ MODULE MCTickScan ------------------------------
(* Values for the constants of TickScan. *)
EXTENDS TickScan, TLC

(* The application runs in Wine. *)
MCBinOf   == [app |-> "wine", reaper |-> "reaper"]
MCExeOf   == [app |-> "bin", reaper |-> "reaper"]
MCScopeOf == [app |-> "org.app", reaper |-> ""]
MCGameOf  == [app |-> "", reaper |-> "appid:1"]

(* A shortcut's file name "The-Game" and the executable "thegame" match. *)
MCNormalOf ==
  [ name \in {"bin", "org.app", "reaper", "appid:1", "steam", "The-Game", "a", "wine"} |->
      IF name = "The-Game" THEN "thegame" ELSE name ]

(***************************************************************************)
(* The setups are of three kinds: any files of the system and of a user,   *)
(* with a game that runs; any processes, which change; any sessions, which *)
(* change, too.                                                            *)
(***************************************************************************)
Shelves(dir) ==
  { SelectSeq(<< one, two >>, LAMBDA file : file.exe # "") :
      one \in { File(dir, "The-Game", exe, "appid:1") : exe \in {"", "steam"} }
        \cup  { File(dir, "The-Game", "bin", "") },
      two \in { File(dir, "org.app", exe, "") : exe \in {"", "bin", "reaper", "steam"} }
        \cup  { File(dir, "org.app", "steam", "appid:1") } }

Game == (1 :> [parent |-> Outside, program |-> "app"]) @@ (2 :> [parent |-> 1, program |-> "app"])
        @@ (3 :> [parent |-> 2, program |-> "reaper"])

Usual == [ shelf |-> [dir \in {System} \cup Owners |-> << File(dir, "a", "bin", "") >>],
           live |-> Game, sessions |-> [s \in Sessions |-> "active"],
           events |-> MaxEvents, changes |-> MaxChanges ]

MCSetups ==
  { [Usual EXCEPT !.shelf = [@ EXCEPT ![System] = one, !["u"] = two]] :
      one \in Shelves(System), two \in Shelves("u") }
  \cup { [Usual EXCEPT !.live = table, !.events = 0] : table \in Forests }
  \cup { [Usual EXCEPT !.sessions = one, !.changes = 0] : one \in [Sessions -> States] }
=============================================================================
