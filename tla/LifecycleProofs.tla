---------------------------- MODULE LifecycleProofs ----------------------------
(***************************************************************************)
(* The keys of the two sides and the registration survive any sequence of  *)
(* crashes, failing writes and restarts, as long as the files that are     *)
(* there can be read, and no garbled binary is installed as long as there  *)
(* is a key and a signature to check it with.                              *)
(***************************************************************************)
EXTENDS Lifecycle, TLAPS

(* Where the daemon is past its keys, it has some, or none for this run. *)
StepsFit ==
  /\ step = "off" <=> cAt = "off"
  /\ step = "keys" => cAt \in {"load", "pub", "priv"}
  /\ step \in {"register", "cycle", "download", "replace"} => cAt \in {"on", "failed"}

(* Each pair drawn but the first was paid for by a fault. *)
DrawsPaid ==
  /\ sDrawn =< faults + 1 /\ (S!Incomplete => sDrawn =< faults)
  /\ cDrawn =< faults + 1 /\ (C!Incomplete => cDrawn =< faults)

(***************************************************************************)
(* What other files hold are the keys of pairs that are complete; and as   *)
(* long as those can be read they are never replaced.                      *)
(***************************************************************************)
Known ==
  /\ clientFile \in [Keys -> {"missing", "broken", "whole"}]
  /\ skipped \subseteq Keys
  /\ clients = IF Serving THEN { k \in Keys : clientFile[k] = "whole" } \ skipped ELSE {}
  /\ told # 0 => told \in Keys /\ clientFile[told] = "whole"
  /\ pinned \in {0} \cup Keys
  /\ happened \subseteq Lasting

ServerReads ==
  "serverRead" \notin happened => S!Settled /\ (pinned # 0 => pinned = sPriv)

DaemonReads ==
  "daemonRead" \notin happened => C!Settled /\ \A k \in Keys : clientFile[k] # "missing" => k = cPriv

Binaries ==
  /\ pinned # 0 => binary \in Versions \cup {Garbled}
  /\ pinned = 0 => binary = None /\ step = "off"
  /\ serverPub \in {0, pinned}
  /\ step # "off" /\ serverPub = 0 => "unpinned" \in happened
  /\ step = "replace" => /\ temp.content \in Versions \cup {Garbled}
                         /\ temp.signer = 0 => "unsigned" \in happened
  /\ BinaryWhole

IInv ==
  /\ S!KeysKept /\ C!KeysKept
  /\ TypeOK /\ StepsFit /\ DrawsPaid /\ Known /\ ServerReads /\ DaemonReads /\ Binaries

LEMMA InitIInv == Init => IInv
  <1> SUFFICES ASSUME Init PROVE IInv OBVIOUS
  <1>1. S!KeysKept /\ C!KeysKept /\ S!Settled /\ C!Settled BY S!KeysInit, C!KeysInit DEF Init
  <1>2. TypeOK BY LifecycleAssumption DEF Init, TypeOK, S!KeypairInit, C!KeypairInit, Keys, Nothing
  <1>3. StepsFit /\ DrawsPaid BY LifecycleAssumption DEF Init, StepsFit, DrawsPaid, S!KeypairInit, C!KeypairInit
  <1>4. Known /\ ServerReads /\ DaemonReads
    BY <1>1 DEF Init, Known, ServerReads, DaemonReads, Serving, S!KeypairInit, Keys
  <1>5. Binaries BY DEF Init, Binaries, BinaryWhole, None, Garbled
  <1> QED BY <1>1, <1>2, <1>3, <1>4, <1>5 DEF IInv

LEMMA KeysInv ==
  ASSUME IInv, Next
  PROVE  S!KeysKept' /\ C!KeysKept'
  <1>1. S!AnyStep \/ UNCHANGED serverKeys
    BY DEF Next, ServerStarts, ServerKeyUnread, ServerKeyWriteFails, ServerCrash, Redeploy, Install, Start,
           LoadKeys, KeyUnread, KeyWriteFails, Unregistered, Register, RegisterFails, CheckVersion,
           FetchBinary, Replace, Crash, S!AnyStep, S!AnyReadStep
  <1>2. C!AnyStep \/ UNCHANGED clientKeys
    BY DEF Next, ServerStarts, ServerKeyUnread, ServerKeyWriteFails, ServerCrash, Redeploy, Install, Start,
           LoadKeys, KeyUnread, KeyWriteFails, Unregistered, Register, RegisterFails, CheckVersion,
           FetchBinary, Replace, Crash, updater, C!AnyStep, C!AnyReadStep
  <1>3. S!KeysKept'
    <2>1. CASE S!AnyStep BY <2>1, S!KeysStep DEF IInv
    <2>2. CASE UNCHANGED serverKeys BY <2>2 DEF IInv, serverKeys, S!KeysKept, S!IsKey
    <2> QED BY <1>1, <2>1, <2>2
  <1>4. C!KeysKept'
    <2>1. CASE C!AnyStep BY <2>1, C!KeysStep DEF IInv
    <2>2. CASE UNCHANGED clientKeys BY <2>2 DEF IInv, clientKeys, C!KeysKept, C!IsKey
    <2> QED BY <1>2, <2>1, <2>2
  <1> QED BY <1>3, <1>4

(* What has happened stays so, ... *)
LEMMA HappenedInv ==
  ASSUME IInv, Next
  PROVE  happened \subseteq happened' /\ happened' \subseteq Lasting
  <1>1. happened \subseteq Lasting BY DEF IInv, Known
  <1>2. \/ UNCHANGED happened
        \/ \E kind \in Lasting : LastingFault(kind)
    BY DEF Next, ServerStarts, ServerKeyUnread, ServerKeyWriteFails, ServerCrash, Redeploy, Install, Start,
           LoadKeys, KeyUnread, KeyWriteFails, Unregistered, Register, RegisterFails, CheckVersion,
           FetchBinary, Replace, Crash, history, Lasting
  <1> QED BY <1>1, <1>2 DEF LastingFault

(* ... and until a read fails a private key that is there is there for good. *)
LEMMA SettledInv ==
  ASSUME IInv, Next
  PROVE  /\ "serverRead" \notin happened' => S!Settled' /\ (sPriv > 0 => sPriv' = sPriv)
         /\ "daemonRead" \notin happened' => C!Settled' /\ (cPriv > 0 => cPriv' = cPriv)
  <1>1. S!AnyReadStep \/ UNCHANGED serverKeys \/ "serverRead" \in happened'
    BY DEF Next, ServerStarts, ServerKeyUnread, ServerKeyWriteFails, ServerCrash, Redeploy, Install, Start,
           LoadKeys, KeyUnread, KeyWriteFails, Unregistered, Register, RegisterFails, CheckVersion,
           FetchBinary, Replace, Crash, LastingFault, S!AnyReadStep
  <1>2. C!AnyReadStep \/ UNCHANGED clientKeys \/ "daemonRead" \in happened'
    BY DEF Next, ServerStarts, ServerKeyUnread, ServerKeyWriteFails, ServerCrash, Redeploy, Install, Start,
           LoadKeys, KeyUnread, KeyWriteFails, Unregistered, Register, RegisterFails, CheckVersion,
           FetchBinary, Replace, Crash, LastingFault, updater, C!AnyReadStep
  <1>3. ASSUME "serverRead" \notin happened' PROVE S!Settled' /\ (sPriv > 0 => sPriv' = sPriv)
    <2>0. S!KeysKept /\ S!Settled BY <1>3, HappenedInv DEF IInv, ServerReads
    <2>1. CASE S!AnyReadStep BY <2>0, <2>1, S!SettledStep DEF S!IsKey
    <2>2. CASE UNCHANGED serverKeys BY <2>0, <2>2 DEF serverKeys, S!Settled, S!IsKey
    <2> QED BY <1>1, <1>3, <2>1, <2>2
  <1>4. ASSUME "daemonRead" \notin happened' PROVE C!Settled' /\ (cPriv > 0 => cPriv' = cPriv)
    <2>0. C!KeysKept /\ C!Settled BY <1>4, HappenedInv DEF IInv, DaemonReads
    <2>1. CASE C!AnyReadStep BY <2>0, <2>1, C!SettledStep DEF C!IsKey
    <2>2. CASE UNCHANGED clientKeys BY <2>0, <2>2 DEF clientKeys, C!Settled, C!IsKey
    <2> QED BY <1>2, <1>4, <2>1, <2>2
  <1> QED BY <1>3, <1>4

LEMMA FaultType ==
  ASSUME IInv, Next
  PROVE  /\ faults \in 0 .. MaxFaults /\ faults' \in 0 .. MaxFaults
         /\ faults' = faults \/ faults' = faults + 1
  <1>1. Fault \/ faults' = faults
    BY DEF Next, ServerStarts, ServerKeyUnread, ServerKeyWriteFails, ServerCrash, Redeploy, Install, Start,
           LoadKeys, KeyUnread, KeyWriteFails, Unregistered, Register, RegisterFails, CheckVersion,
           FetchBinary, Replace, Crash, LastingFault, updater
  <1> QED BY <1>1, LifecycleAssumption DEF Fault, IInv, TypeOK

(***************************************************************************)
(* A step without a fault cuts no process off in the middle of its writes. *)
(***************************************************************************)
LEMMA DrawsInv ==
  ASSUME IInv, Next
  PROVE  DrawsPaid'
  <1> USE DEF IInv
  <1>0. sDrawn \in Nat /\ cDrawn \in Nat /\ faults \in Nat
    BY FaultType DEF S!KeysKept, C!KeysKept
  <1>1. \/ S!StartProcess \/ S!KeypairStep \/ (sAt \notin {"pub", "priv"} /\ S!EndProcess)
        \/ UNCHANGED serverKeys
        \/ faults' = faults + 1 /\ sDrawn' = sDrawn
        \/ faults' = faults + 1 /\ S!LoadUnread
    BY DEF Next, ServerStarts, ServerKeyUnread, ServerKeyWriteFails, ServerCrash, Redeploy, Install, Start,
           LoadKeys, KeyUnread, KeyWriteFails, Unregistered, Register, RegisterFails, CheckVersion,
           FetchBinary, Replace, Crash, Fault, LastingFault, updater, Serving, S!WriteFails, S!EndProcess
  <1>2. \/ C!StartProcess \/ C!KeypairStep \/ (cAt \notin {"pub", "priv"} /\ C!EndProcess)
        \/ UNCHANGED clientKeys
        \/ faults' = faults + 1 /\ cDrawn' = cDrawn
        \/ faults' = faults + 1 /\ C!LoadUnread
    BY DEF Next, ServerStarts, ServerKeyUnread, ServerKeyWriteFails, ServerCrash, Redeploy, Install, Start,
           LoadKeys, KeyUnread, KeyWriteFails, Unregistered, Register, RegisterFails, CheckVersion,
           FetchBinary, Replace, Crash, Fault, LastingFault, updater, StepsFit, C!WriteFails, C!EndProcess
  <1>3. sDrawn' =< faults' + 1 /\ (S!Incomplete' => sDrawn' =< faults')
    <2>1. CASE S!StartProcess \/ S!KeypairStep \/ (sAt \notin {"pub", "priv"} /\ S!EndProcess)
      <3>1. /\ sDrawn' = sDrawn \/ (S!Incomplete /\ sDrawn' = sDrawn + 1 /\ ~ S!Incomplete')
            /\ S!Incomplete' => S!Incomplete
        BY <2>1, S!DrawsStep
      <3> QED BY <1>0, <3>1, FaultType DEF DrawsPaid
    <2>2. CASE UNCHANGED serverKeys
      BY <1>0, <2>2, FaultType DEF DrawsPaid, S!Incomplete, serverKeys
    <2>3. CASE faults' = faults + 1 /\ sDrawn' = sDrawn BY <1>0, <2>3 DEF DrawsPaid
    <2>4. CASE faults' = faults + 1 /\ S!LoadUnread
      <3>1. sDrawn' = sDrawn + 1 /\ ~ S!Incomplete' BY <2>4 DEF S!LoadUnread, S!Incomplete
      <3> QED BY <1>0, <2>4, <3>1 DEF DrawsPaid
    <2> QED BY <1>1, <2>1, <2>2, <2>3, <2>4
  <1>4. cDrawn' =< faults' + 1 /\ (C!Incomplete' => cDrawn' =< faults')
    <2>1. CASE C!StartProcess \/ C!KeypairStep \/ (cAt \notin {"pub", "priv"} /\ C!EndProcess)
      <3>1. /\ cDrawn' = cDrawn \/ (C!Incomplete /\ cDrawn' = cDrawn + 1 /\ ~ C!Incomplete')
            /\ C!Incomplete' => C!Incomplete
        BY <2>1, C!DrawsStep
      <3> QED BY <1>0, <3>1, FaultType DEF DrawsPaid
    <2>2. CASE UNCHANGED clientKeys
      BY <1>0, <2>2, FaultType DEF DrawsPaid, C!Incomplete, clientKeys
    <2>3. CASE faults' = faults + 1 /\ cDrawn' = cDrawn BY <1>0, <2>3 DEF DrawsPaid
    <2>4. CASE faults' = faults + 1 /\ C!LoadUnread
      <3>1. cDrawn' = cDrawn + 1 /\ ~ C!Incomplete' BY <2>4 DEF C!LoadUnread, C!Incomplete
      <3> QED BY <1>0, <2>4, <3>1 DEF DrawsPaid
    <2> QED BY <1>2, <2>1, <2>2, <2>3, <2>4
  <1> QED BY <1>3, <1>4 DEF DrawsPaid

LEMMA StepsInv ==
  ASSUME IInv, Next
  PROVE  StepsFit'
  <1> USE DEF IInv, StepsFit
  <1>1. CASE UNCHANGED << clientKeys, step >> BY <1>1 DEF clientKeys
  <1>2. CASE Start BY <1>2 DEF Start, C!StartProcess
  <1>3. CASE LoadKeys
    BY <1>3 DEF LoadKeys, C!KeypairStep, C!Load, C!WritePub, C!WritePriv
  <1>4. CASE KeyUnread \/ KeyWriteFails
    BY <1>4 DEF KeyUnread, KeyWriteFails, C!LoadUnread, C!WriteFails, updater
  <1>5. CASE Unregistered \/ Register \/ RegisterFails
    BY <1>5 DEF Unregistered, Register, RegisterFails, clientKeys
  <1>6. CASE CheckVersion \/ FetchBinary
    BY <1>6 DEF CheckVersion, FetchBinary, clientKeys
  <1>7. CASE Replace BY <1>7 DEF Replace, C!EndProcess, clientKeys
  <1>8. CASE Crash BY <1>8 DEF Crash, C!EndProcess
  <1>9. ServerStarts \/ ServerKeyUnread \/ ServerKeyWriteFails \/ ServerCrash \/ Redeploy \/ Install
          => UNCHANGED << clientKeys, step >>
    BY DEF ServerStarts, ServerKeyUnread, ServerKeyWriteFails, ServerCrash, Redeploy, Install, updater
  <1> QED BY <1>1, <1>2, <1>3, <1>4, <1>5, <1>6, <1>7, <1>8, <1>9 DEF Next

(***************************************************************************)
(* The pair of a process that is past its keys is that of its files; its   *)
(* halves are of one draw until a read fails.                              *)
(***************************************************************************)
LEMMA PairsInv ==
  ASSUME IInv
  PROVE  /\ sAt = "on" => sPair = << sPub, sPriv >> /\ sPub \in Keys /\ sPriv \in Keys
         /\ cAt = "on" => cPair = << cPub, cPriv >> /\ cPub \in Keys /\ cPriv \in Keys
         /\ sAt = "on" /\ "serverRead" \notin happened => sPub = sPriv
         /\ cAt = "on" /\ "daemonRead" \notin happened => cPub = cPriv
  <1>1. sDrawn \in 0 .. MaxFaults + 1 /\ cDrawn \in 0 .. MaxFaults + 1
    BY LifecycleAssumption DEF IInv, TypeOK, Keys
  <1>2. sAt = "on" => sPair = << sPub, sPriv >> /\ sPub \in Keys /\ sPriv \in Keys
    BY <1>1, LifecycleAssumption DEF IInv, S!KeysKept, S!IsKey, Keys
  <1>3. cAt = "on" => cPair = << cPub, cPriv >> /\ cPub \in Keys /\ cPriv \in Keys
    BY <1>1, LifecycleAssumption DEF IInv, C!KeysKept, C!IsKey, Keys
  <1>4. sAt = "on" /\ "serverRead" \notin happened => sPub = sPriv
    BY DEF IInv, ServerReads, S!KeysKept, S!Settled
  <1>5. cAt = "on" /\ "daemonRead" \notin happened => cPub = cPriv
    BY DEF IInv, DaemonReads, C!KeysKept, C!Settled
  <1> QED BY <1>2, <1>3, <1>4, <1>5

(***************************************************************************)
(* A binary is checked, unless the daemon has no key or it has no signer.  *)
(***************************************************************************)
LEMMA ReleaseInv ==
  ASSUME IInv, Next
  PROVE  Binaries'
  <1> USE DEF IInv, Binaries, BinaryWhole
  <1>0. happened \subseteq happened' BY HappenedInv
  <1>1. CASE UNCHANGED << install, step, temp, serverPub >> BY <1>0, <1>1 DEF install
  <1>2. CASE Install
    <2>1. binary' \in Versions /\ pinned' # 0 BY <1>2, PairsInv DEF Install, Serving, TypeOK, Keys
    <2>2. binary' # Garbled BY <2>1, LifecycleAssumption DEF Garbled
    <2> QED BY <1>2, <2>1, <2>2 DEF Install, updater, history
  <1>3. CASE Replace
    <2>1. CASE step' = "cycle"
      BY <1>0, <1>3, <2>1 DEF Replace
    <2>2. CASE Verified /\ binary' = temp.content /\ step' = "off" /\ serverPub' = 0
      <3>1. temp.content = Garbled => "unpinned" \in happened \/ "unsigned" \in happened
        BY <1>3, <2>2 DEF Replace, Verified
      <3> QED BY <1>3, <2>2, <3>1 DEF Replace, history
    <2> QED BY <1>3, <2>1, <2>2 DEF Replace
  <1>4. CASE FetchBinary
    <2>1. Serving => sPair[2] # 0 BY PairsInv DEF Serving, Keys
    <2>2. step' = "replace" => temp'.content \in Versions \cup {Garbled}
      BY <1>4 DEF FetchBinary, TypeOK
    <2>3. step' = "replace" /\ temp'.signer = 0 => "unsigned" \in happened'
      BY <1>4, <2>1 DEF FetchBinary, LastingFault
    <2> QED BY <1>0, <1>4, <2>2, <2>3 DEF FetchBinary, install
  <1>5. CASE Start
    <2>1. serverPub' = 0 => "unpinned" \in happened' BY <1>5 DEF Start, LastingFault
    <2>2. serverPub' \in {0, pinned} BY <1>5 DEF Start
    <2> QED BY <1>0, <1>5, <2>1, <2>2 DEF Start, install
  <1>6. CASE LoadKeys \/ KeyUnread \/ KeyWriteFails \/ Unregistered \/ Register \/ RegisterFails
               \/ CheckVersion \/ Crash
    BY <1>0, <1>6 DEF LoadKeys, KeyUnread, KeyWriteFails, Unregistered, Register, RegisterFails,
               CheckVersion, Crash, install, updater
  <1>7. ServerStarts \/ ServerKeyUnread \/ ServerKeyWriteFails \/ ServerCrash \/ Redeploy
          => UNCHANGED << install, step, temp, serverPub >>
    BY DEF ServerStarts, ServerKeyUnread, ServerKeyWriteFails, ServerCrash, Redeploy, updater
  <1> QED BY <1>1, <1>2, <1>3, <1>4, <1>5, <1>6, <1>7 DEF Next

LEMMA KnownInv ==
  ASSUME IInv, Next
  PROVE  Known'
  <1> USE DEF IInv, Known
  <1>0. happened' \subseteq Lasting BY HappenedInv
  <1>1. CASE ServerStarts BY <1>0, <1>1 DEF ServerStarts, Serving, install, history
  <1>2. CASE ServerKeyUnread \/ ServerKeyWriteFails
    BY <1>0, <1>2 DEF ServerKeyUnread, ServerKeyWriteFails, Serving, S!LoadUnread, S!WriteFails,
                     registry, install, history
  <1>3. CASE ServerCrash \/ Redeploy
    BY <1>0, <1>3 DEF ServerCrash, Redeploy, Serving, S!EndProcess, install, history
  <1>4. CASE Install
    BY <1>0, <1>4, PairsInv DEF Install, Serving, serverKeys, registry, history
  <1>5. CASE Register
    <2>1. cPair[1] \in Keys BY <1>5, PairsInv DEF Register
    <2> QED BY <1>0, <1>5, <2>1
            DEF Register, RegisterClient, Serving, serverKeys, registry, install
  <1>6. CASE RegisterFails
    <2>1. cPair[1] \in Keys /\ cPair[1] \notin clients BY <1>6, PairsInv DEF RegisterFails
    <2>2. clientFile' \in [Keys -> {"missing", "broken", "whole"}] BY <1>6, <2>1 DEF RegisterFails
    <2>3. CASE sAt' = "off" BY <1>0, <1>6, <2>2, <2>3 DEF RegisterFails, Serving, S!EndProcess, serverKeys, install
    <2>4. CASE UNCHANGED << serverKeys, clients, skipped >> BY <1>0, <1>6, <2>1, <2>2, <2>4 DEF RegisterFails, Serving, serverKeys, install
    <2> QED BY <1>6, <2>3, <2>4 DEF RegisterFails, S!EndProcess
  <1>7. CASE Start \/ LoadKeys \/ KeyUnread \/ KeyWriteFails \/ Unregistered \/ CheckVersion
               \/ FetchBinary \/ Replace \/ Crash
    BY <1>0, <1>7 DEF Start, LoadKeys, KeyUnread, KeyWriteFails, Unregistered, CheckVersion,
                     FetchBinary, Replace, Crash, Serving, serverKeys, registry, install, history
  <1> QED BY <1>1, <1>2, <1>3, <1>4, <1>5, <1>6, <1>7 DEF Next

(***************************************************************************)
(* Only a complete pair is shown to the other side, and it is kept.        *)
(***************************************************************************)
LEMMA ReadsInv ==
  ASSUME IInv, Next
  PROVE  ServerReads' /\ DaemonReads'
  <1> USE DEF IInv
  <1>1. ASSUME "serverRead" \notin happened' PROVE S!Settled' /\ (pinned' # 0 => pinned' = sPriv')
    <2>1. "serverRead" \notin happened BY <1>1, HappenedInv
    <2>2. S!Settled' /\ (sPriv > 0 => sPriv' = sPriv) BY <1>1, SettledInv
    <2>3. pinned # 0 => pinned = sPriv /\ sPriv > 0 BY <2>1 DEF ServerReads, Known, Keys
    <2>4. CASE Install BY <2>1, <2>2, <2>4, PairsInv DEF Install, Serving, serverKeys
    <2>5. pinned' = pinned \/ Install
      BY DEF Next, ServerStarts, ServerKeyUnread, ServerKeyWriteFails, ServerCrash, Redeploy, Install, Start,
           LoadKeys, KeyUnread, KeyWriteFails, Unregistered, Register, RegisterFails, CheckVersion,
           FetchBinary, Replace, Crash, install
    <2> QED BY <2>2, <2>3, <2>4, <2>5
  <1>2. ASSUME "daemonRead" \notin happened'
        PROVE  C!Settled' /\ \A k \in Keys : clientFile'[k] # "missing" => k = cPriv'
    <2>1. "daemonRead" \notin happened BY <1>2, HappenedInv
    <2>2. C!Settled' /\ (cPriv > 0 => cPriv' = cPriv) BY <1>2, SettledInv
    <2>3. \A k \in Keys : clientFile[k] # "missing" => k = cPriv /\ cPriv > 0
      BY <2>1 DEF DaemonReads, Keys
    <2>4. CASE Register \/ RegisterFails
      <3>1. cPair[1] = cPriv /\ cPriv \in Keys /\ cPriv' = cPriv
        BY <2>1, <2>4, PairsInv DEF Register, RegisterFails, clientKeys
      <3>2. clientFile \in [Keys -> {"missing", "broken", "whole"}] BY DEF Known
      <3>3. clientFile' = clientFile \/ clientFile' = [clientFile EXCEPT ![cPriv] = "whole"]
              \/ clientFile' = [clientFile EXCEPT ![cPriv] = "broken"]
        BY <2>4, <3>1 DEF Register, RegisterFails, RegisterClient, registry
      <3>4. \A k \in Keys : clientFile'[k] # "missing" => k = cPriv
        BY <2>3, <3>1, <3>2, <3>3
      <3> QED BY <2>2, <3>1, <3>4
    <2>5. clientFile' = clientFile \/ Register \/ RegisterFails
      BY DEF Next, ServerStarts, ServerKeyUnread, ServerKeyWriteFails, ServerCrash, Redeploy, Install, Start,
           LoadKeys, KeyUnread, KeyWriteFails, Unregistered, Register, RegisterFails, CheckVersion,
           FetchBinary, Replace, Crash, registry
    <2> QED BY <2>2, <2>3, <2>4, <2>5
  <1> QED BY <1>1, <1>2 DEF ServerReads, DaemonReads

LEMMA TypeInv ==
  ASSUME IInv, Next
  PROVE  TypeOK'
  <1> USE DEF IInv
  <1>1. faults' \in 0 .. MaxFaults BY FaultType
  <1>2. sDrawn' \in {0} \cup Keys /\ cDrawn' \in {0} \cup Keys
    <2>1. sDrawn' \in Nat /\ cDrawn' \in Nat BY KeysInv DEF S!KeysKept, C!KeysKept
    <2>2. sDrawn' =< faults' + 1 /\ cDrawn' =< faults' + 1 BY DrawsInv DEF DrawsPaid
    <2>3. faults' \in Nat /\ faults' =< MaxFaults /\ MaxFaults \in Nat BY <1>1, LifecycleAssumption
    <2>4. \A n, f \in Nat : n =< f + 1 /\ f =< MaxFaults => n \in {0} \cup Keys
      BY <2>3 DEF Keys
    <2> QED BY <2>1, <2>2, <2>3, <2>4
  <1>3. /\ sAt' \in {"off", "load", "pub", "priv", "on", "failed"}
        /\ cAt' \in {"off", "load", "pub", "priv", "on", "failed"}
    BY KeysInv DEF S!KeysKept, C!KeysKept
  <1>4. /\ clients' \subseteq Keys /\ clientFile' \in [Keys -> {"missing", "broken", "whole"}]
        /\ skipped' \subseteq Keys /\ pinned' \in {0} \cup Keys /\ told' \in {0} \cup Keys
        /\ happened' \subseteq Lasting
    BY KnownInv DEF Known
  <1>5. offered' \in Versions \cup {None} /\ dist' \in Versions
    BY DEF TypeOK, release, Next, ServerStarts, ServerKeyUnread, ServerKeyWriteFails, ServerCrash, Redeploy, Install, Start,
           LoadKeys, KeyUnread, KeyWriteFails, Unregistered, Register, RegisterFails, CheckVersion,
           FetchBinary, Replace, Crash
  <1>6. step' \in {"off", "keys", "register", "cycle", "download", "replace"}
    BY DEF TypeOK, updater, Next, ServerStarts, ServerKeyUnread, ServerKeyWriteFails, ServerCrash, Redeploy, Install, Start,
           LoadKeys, KeyUnread, KeyWriteFails, Unregistered, Register, RegisterFails, CheckVersion,
           FetchBinary, Replace, Crash
  <1>7. binary' \in Versions \cup {None, Garbled} /\ serverPub' \in {0} \cup Keys
    BY <1>4, ReleaseInv DEF Binaries
  <1>8. running' \in Versions \cup {None}
    BY DEF Binaries, TypeOK, updater, Next, ServerStarts, ServerKeyUnread, ServerKeyWriteFails, ServerCrash, Redeploy, Install, Start,
           LoadKeys, KeyUnread, KeyWriteFails, Unregistered, Register, RegisterFails, CheckVersion,
           FetchBinary, Replace, Crash
  <1>9. temp' \in [content : Versions \cup {None, Garbled}, signer : {0} \cup Keys]
    <2>1. CASE FetchBinary
      <3>1. Serving => sPair[2] \in Keys BY PairsInv DEF Serving
      <3> QED BY <2>1, <3>1 DEF FetchBinary, TypeOK
    <2>2. CASE ~ FetchBinary
      BY <2>2 DEF TypeOK, updater, Nothing, Next, ServerStarts, ServerKeyUnread,
             ServerKeyWriteFails, ServerCrash, Redeploy, Install, Start, LoadKeys, KeyUnread,
             KeyWriteFails, Unregistered, Register, RegisterFails, CheckVersion, Replace, Crash
    <2> QED BY <2>1, <2>2
  <1> QED BY <1>1, <1>2, <1>3, <1>4, <1>5, <1>6, <1>7, <1>8, <1>9 DEF TypeOK

LEMMA Invariance == Spec => []IInv
  <1>1. IInv /\ [Next]_vars => IInv'
    <2> SUFFICES ASSUME IInv, [Next]_vars PROVE IInv' OBVIOUS
    <2>1. CASE Next
      BY <2>1, KeysInv, DrawsInv, StepsInv, ReleaseInv, KnownInv, ReadsInv, TypeInv DEF IInv
    <2>2. CASE UNCHANGED vars
      BY <2>2 DEF IInv, TypeOK, StepsFit, DrawsPaid, Known, ServerReads, DaemonReads, Binaries,
                  BinaryWhole, Serving, S!KeysKept, C!KeysKept, S!Settled, C!Settled, S!IsKey,
                  C!IsKey, S!Incomplete, C!Incomplete, vars, serverKeys, registry, release,
                  clientKeys, install, updater, history
    <2> QED BY <2>1, <2>2
  <1> QED BY <1>1, InitIInv, PTL DEF Spec

(***************************************************************************)
(* The types of the variables: no more pairs are drawn than there have     *)
(* been faults, and one.                                                   *)
(***************************************************************************)
THEOREM TypeCorrect == Spec => []TypeOK
  <1>1. IInv => TypeOK BY DEF IInv
  <1> QED BY <1>1, Invariance, PTL

(***************************************************************************)
(* The key left on a computer is the server's for good, until a start of   *)
(* the server cannot read its own files.                                   *)
(***************************************************************************)
THEOREM ServerStaysTrusted == Spec => []ServerTrusted
  <1>1. IInv => ServerTrusted
    BY PairsInv DEF ServerTrusted, Serving, IInv, ServerReads
  <1> QED BY <1>1, Invariance, PTL

(***************************************************************************)
(* The server never knows a daemon under two keys, unless the daemon could *)
(* not read its own files.                                                 *)
(***************************************************************************)
THEOREM IdentityUnique == Spec => []OneIdentity
  <1>1. IInv => OneIdentity BY DEF OneIdentity, IInv, DaemonReads
  <1> QED BY <1>1, Invariance, PTL

(***************************************************************************)
(* A registration that was confirmed holds, whatever reads fail: the       *)
(* server accepts the key whenever it could read the file with it.  It is  *)
(* the key the daemon signs with, until it cannot read its own files.      *)
(***************************************************************************)
THEOREM RegistrationHolds == Spec => []ToldIsAccepted
  <1>1. IInv => ToldIsAccepted
    <2> SUFFICES ASSUME IInv, told # 0
                 PROVE  /\ Serving => told \in clients \cup skipped
                        /\ cAt = "on" /\ "daemonRead" \notin happened => cPair[2] = told
      BY DEF ToldIsAccepted
    <2>1. Serving => told \in clients \cup skipped BY DEF IInv, Known
    <2>2. cAt = "on" /\ "daemonRead" \notin happened => cPair[2] = told
      BY PairsInv DEF IInv, Known, DaemonReads
    <2> QED BY <2>1, <2>2
  <1> QED BY <1>1, Invariance, PTL

(***************************************************************************)
(* Nothing garbled is installed by an update that had a signature and a    *)
(* key to check it with.                                                   *)
(***************************************************************************)
THEOREM UpdatesAreWhole == Spec => []BinaryWhole
  <1>1. IInv => BinaryWhole BY DEF IInv, Binaries
  <1> QED BY <1>1, Invariance, PTL
=============================================================================
