-------------------------------- MODULE Keypair --------------------------------
(***************************************************************************)
(* The key pair of a server or of a daemon: LoadOrGenerateKeypair of       *)
(* internal/crypto/crypto.go, run by each process at its start.  The two   *)
(* files are written one after the other, and the process can end, or the  *)
(* disk be full, at any point of it.  A key is the number of its draw.     *)
(***************************************************************************)
EXTENDS Integers, TLAPS

VARIABLES
  pubFile, privFile,  \* the files: Missing, Broken, or the key they hold
  at,                 \* where the process is
  pair,               \* the keys it uses
  drawn               \* how many pairs have been generated so far

files   == << pubFile, privFile >>
keyVars == << files, at, pair, drawn >>

Missing == 0
Broken  == -1    \* truncated: it is there, and does not decode
NoPair  == << 0, 0 >>

IsKey(content) == content > 0

KeypairInit ==
  /\ pubFile = Missing /\ privFile = Missing
  /\ at = "off" /\ pair = NoPair /\ drawn = 0

StartProcess ==
  /\ at \in {"off", "failed"} /\ at' = "load"
  /\ UNCHANGED << files, pair, drawn >>

MutLoadMissingHalf ==
  /\ at = "load"
  /\ IF pubFile # Missing /\ privFile # Missing
     THEN IF IsKey(pubFile) /\ IsKey(privFile)
          THEN at' = "on" /\ pair' = << pubFile, privFile >> /\ UNCHANGED drawn
          ELSE at' = "failed" /\ UNCHANGED << pair, drawn >>
     ELSE at' = (IF pubFile = Missing THEN "pub" ELSE "priv") /\ drawn' = drawn + 1 /\ UNCHANGED pair
  /\ UNCHANGED files

(***************************************************************************)
(* A pair is used if both files are there, and then both have to decode;   *)
(* otherwise a new one is generated, whichever of them is missing.         *)
(***************************************************************************)
Load ==
  /\ at = "load"
  /\ IF pubFile # Missing /\ privFile # Missing
     THEN IF IsKey(pubFile) /\ IsKey(privFile)
          THEN at' = "on" /\ pair' = << pubFile, privFile >> /\ UNCHANGED drawn
          ELSE at' = "failed" /\ UNCHANGED << pair, drawn >>
     ELSE at' = "pub" /\ drawn' = drawn + 1 /\ UNCHANGED pair
  /\ UNCHANGED files

(***************************************************************************)
(* os.ReadFile fails on a file that is there: the code makes no difference *)
(* between that and a missing one, and writes a new pair over the old.     *)
(***************************************************************************)
LoadUnread ==
  /\ at = "load" /\ at' = "pub"
  /\ pubFile # Missing /\ privFile # Missing
  /\ drawn' = drawn + 1
  /\ UNCHANGED << files, pair >>

WritePub ==
  /\ at = "pub" /\ at' = "priv"
  /\ pubFile' = drawn
  /\ UNCHANGED << privFile, pair, drawn >>

MutWritePrivUnsaved ==
  /\ at = "priv" /\ at' = "on"
  /\ pair' = << drawn, drawn >>
  /\ UNCHANGED << files, drawn >>

WritePriv ==
  /\ at = "priv" /\ at' = "on"
  /\ privFile' = drawn
  /\ pair' = << drawn, drawn >>
  /\ UNCHANGED << pubFile, drawn >>

(* os.WriteFile got as far as it did: not at all, or to the truncation. *)
CutOff ==
  /\ pubFile'  \in IF at = "pub"  THEN {pubFile, Broken}  ELSE {pubFile}
  /\ privFile' \in IF at = "priv" THEN {privFile, Broken} ELSE {privFile}

MutWriteFailsGoesOn ==
  /\ at \in {"pub", "priv"} /\ at' = "on"
  /\ CutOff
  /\ pair' = << drawn, drawn >>
  /\ UNCHANGED drawn

(* A write returns an error, and no pair is used. *)
WriteFails ==
  /\ at \in {"pub", "priv"} /\ at' = "failed"
  /\ CutOff
  /\ UNCHANGED << pair, drawn >>

(* The process ends: at its end, or killed in the middle of a write. *)
EndProcess ==
  /\ at # "off" /\ at' = "off"
  /\ CutOff
  /\ pair' = NoPair
  /\ UNCHANGED drawn

KeypairStep == Load \/ WritePub \/ WritePriv

AnyReadStep == StartProcess \/ KeypairStep \/ WriteFails \/ EndProcess

AnyStep == AnyReadStep \/ LoadUnread

-----------------------------------------------------------------------------
KeysKept ==
  /\ at \in {"off", "load", "pub", "priv", "on", "failed"}
  /\ drawn \in Nat
  /\ pubFile \in -1 .. drawn /\ privFile \in -1 .. drawn
  /\ at = "pub" => drawn > 0
  /\ at = "priv" => drawn > 0 /\ pubFile = drawn
  /\ at = "on" => IsKey(pubFile) /\ IsKey(privFile) /\ pair = << pubFile, privFile >>

(***************************************************************************)
(* As long as the files that are there can be read: the private key is     *)
(* written last, and after it nothing is.  Once its file is there, so is   *)
(* the other, and no pair is ever generated again.                         *)
(***************************************************************************)
Settled ==
  /\ privFile # Missing => pubFile # Missing /\ at \notin {"pub", "priv"}
  /\ IsKey(privFile) => pubFile = privFile

LEMMA KeysInit == KeypairInit => KeysKept /\ Settled
  BY DEF KeypairInit, KeysKept, Settled, Missing, IsKey

(* Every step keeps the first. *)
LEMMA KeysStep ==
  ASSUME KeysKept, AnyStep
  PROVE  KeysKept'
  <1> USE DEF KeysKept, Missing, Broken, IsKey, files
  <1>1. CASE StartProcess BY <1>1 DEF StartProcess
  <1>2. CASE Load BY <1>2 DEF Load
  <1>3. CASE WritePub BY <1>3 DEF WritePub
  <1>4. CASE WritePriv BY <1>4 DEF WritePriv
  <1>5. CASE WriteFails BY <1>5 DEF WriteFails, CutOff
  <1>6. CASE EndProcess BY <1>6 DEF EndProcess, CutOff
  <1>7. CASE LoadUnread BY <1>7 DEF LoadUnread
  <1> QED BY <1>1, <1>2, <1>3, <1>4, <1>5, <1>6, <1>7 DEF AnyStep, AnyReadStep, KeypairStep

(* Without a failing read, a private key that is there is there for good. *)
LEMMA SettledStep ==
  ASSUME KeysKept, Settled, AnyReadStep
  PROVE  Settled' /\ (IsKey(privFile) => privFile' = privFile)
  <1> USE DEF KeysKept, Settled, Missing, Broken, IsKey, files
  <1>1. CASE StartProcess BY <1>1 DEF StartProcess
  <1>2. CASE Load BY <1>2 DEF Load
  <1>3. CASE WritePub BY <1>3 DEF WritePub
  <1>4. CASE WritePriv BY <1>4 DEF WritePriv
  <1>5. CASE WriteFails BY <1>5 DEF WriteFails, CutOff
  <1>6. CASE EndProcess BY <1>6 DEF EndProcess, CutOff
  <1> QED BY <1>1, <1>2, <1>3, <1>4, <1>5, <1>6 DEF AnyReadStep, KeypairStep

(***************************************************************************)
(* A pair is drawn only where one of the files is missing, or not read,    *)
(* and a process not in the middle of its writes leaves none missing.      *)
(***************************************************************************)
Incomplete == (pubFile = Missing \/ privFile = Missing) /\ at \notin {"pub", "priv"}

LEMMA DrawsStep ==
  ASSUME KeysKept, StartProcess \/ KeypairStep \/ (at \notin {"pub", "priv"} /\ EndProcess)
  PROVE  /\ drawn' = drawn \/ (Incomplete /\ drawn' = drawn + 1 /\ ~ Incomplete')
         /\ Incomplete' => Incomplete
  <1> USE DEF KeysKept, Incomplete, Missing, IsKey, files
  <1>1. CASE StartProcess BY <1>1 DEF StartProcess
  <1>2. CASE Load BY <1>2 DEF Load
  <1>3. CASE WritePub BY <1>3 DEF WritePub
  <1>4. CASE WritePriv BY <1>4 DEF WritePriv
  <1>5. CASE at \notin {"pub", "priv"} /\ EndProcess BY <1>5 DEF EndProcess, CutOff
  <1> QED BY <1>1, <1>2, <1>3, <1>4, <1>5 DEF KeypairStep
=============================================================================
