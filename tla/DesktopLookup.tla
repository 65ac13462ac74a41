----------------------------- MODULE DesktopLookup -----------------------------
(***************************************************************************)
(* The table of applications, internal/activity/desktop.go: the .desktop   *)
(* files of the system, then those of the users of the configuration, in   *)
(* whatever order a map gives them, are read once, when the tracker is     *)
(* made; each of them is found under its executable and its file name, and *)
(* the first file with a key keeps it.                                     *)
(*                                                                         *)
(* A file stands for what parseFile takes from it; files without a name or *)
(* a command are left out.                                                 *)
(***************************************************************************)
EXTENDS Integers, Sequences, SequencesExt

CONSTANTS
  Owners,     \* users of the configuration the tracker is made for
  Launcher,   \* knownLaunchers: the executable of Steam
  NormalOf,   \* normalizeGameName, by executable and file name
  NoGame

VARIABLES
  shelf,    \* the files, in the order of the glob: of System, and of each owner
  unread,   \* directories not yet read
  apps,     \* DesktopLookup.apps: by key, the file
  games     \* DesktopLookup.games

lookupVars == << shelf, unread, apps, games >>

System == "system"

(***************************************************************************)
(* A file of directory dir: its name without extension, the executable of  *)
(* its command, and the game that this launches, NoGame if it is no game.  *)
(***************************************************************************)
File(dir, id, exe, game) == [dir |-> dir, id |-> id, exe |-> exe, game |-> game]

IsGame(file) == file.exe = Launcher /\ file.game # NoGame

Keys(file) == {file.exe, file.id}

MutRegisterLastWins(known, file) ==
  IF IsGame(file) THEN [known EXCEPT !.games = Append(@, file)]
  ELSE [known EXCEPT !.apps = [k \in DOMAIN @ \cup Keys(file) |-> IF k \in Keys(file) THEN file ELSE @[k]]]

(* The end of parseFile: a game is found in another way, and a key is kept. *)
Register(known, file) ==
  IF IsGame(file) THEN [known EXCEPT !.games = Append(@, file)]
  ELSE [known EXCEPT !.apps = [k \in DOMAIN @ \cup Keys(file) |-> IF k \in DOMAIN @ THEN @[k] ELSE file]]

LookupInit == unread = {System} \cup Owners /\ apps = << >> /\ games = << >>

(* scanDir; NewDesktopLookup reads the system's directories first. *)
ScanDir(dir) ==
  /\ dir \in unread /\ unread' = unread \ {dir}
  /\ System \in unread => dir = System
  /\ LET known == FoldLeft(Register, [apps |-> apps, games |-> games], shelf[dir])
     IN  apps' = known.apps /\ games' = known.games
  /\ UNCHANGED shelf

Built == unread = {}

-----------------------------------------------------------------------------
(***************************************************************************)
(* The name an identifier of a process is counted under: that of a file,   *)
(* or its own, which a file cannot have.                                   *)
(***************************************************************************)
NameIn(file)  == << file.dir, file.id >>
OwnName(exe)  == << "", exe >>
Unnamed       == << >>

FirstName(index, otherwise) == IF index = 0 THEN otherwise ELSE NameIn(games[index])

(* LookupGameByAppID; an unknown game is not counted. *)
NameOfGame(game) ==
  FirstName(SelectInSeq(games, LAMBDA file : file.game = game), Unnamed)

(* Lookup, then LookupGame, and at last the identifier as it is. *)
NameOfExe(exe) ==
  IF exe \in DOMAIN apps THEN NameIn(apps[exe])
  ELSE FirstName(SelectInSeq(games, LAMBDA file : NormalOf[file.id] = NormalOf[exe]),
                 OwnName(exe))

-----------------------------------------------------------------------------
(***************************************************************************)
(* Nobody renames an application of the system: what one of its files      *)
(* describes is counted under the name of a file of the system, whatever   *)
(* the users have in their home directories and in whichever order these   *)
(* are read.  The name a limit or a report speaks of stays the same from   *)
(* one start of the daemon to the next.                                    *)
(***************************************************************************)
SystemNamesKept ==
  Built =>
    \A i \in DOMAIN shelf[System] :
      LET file == shelf[System][i] IN
        IF IsGame(file) THEN NameOfGame(file.game)[1] = System
        ELSE \A k \in Keys(file) : NameOfExe(k)[1] = System
=============================================================================
