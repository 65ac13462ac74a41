------------------------------- MODULE Lifecycle -------------------------------
(***************************************************************************)
(* What a daemon and its server know of each other over their lives: the   *)
(* server's key, which the installation leaves on the computer, the        *)
(* daemon's key, registered with the server at each start of the daemon,   *)
(* and the binary, which the daemon replaces by the one the server has     *)
(* whenever their versions differ (internal/update/update.go).             *)
(*                                                                         *)
(* Every file is written by a process that can be killed while it writes,  *)
(* each side restarts while the other goes on, a file that is there may    *)
(* fail to be read, and an answer may come without its signature.          *)
(***************************************************************************)
EXTENDS Integers

CONSTANTS
  Versions,    \* versions of the program
  MaxFaults    \* bound on failing reads and writes, crashes, lost and spoilt answers

ASSUME LifecycleAssumption == Versions \subseteq Nat \ {0} /\ MaxFaults \in Nat

VARIABLES
  \* The server:
  sPub, sPriv, sAt, sPair, sDrawn,   \* its key pair
  clients,       \* handlers.clients, the registered keys in memory
  clientFile,    \* by key: its file in the directory clients
  skipped,       \* the keys whose files this start of it could not read
  offered,       \* the version it announces
  dist,          \* the version of the binary it hands out
  \* The computer:
  cPub, cPriv, cAt, cPair, cDrawn,   \* the key pair of its daemon
  pinned,        \* server.pub, None before the installation
  binary,        \* the installed binary
  running,       \* the version the daemon runs
  serverPub,     \* the server's key as it has loaded it, None if it has not
  step,          \* what the daemon does
  temp,          \* the binary it has downloaded, and its signer if there is one
  faults,
  \* History, for the properties only:
  told,          \* the key whose registration was confirmed, when last asked for
  happened       \* which faults with a lasting effect there have been

serverKeys == << sPub, sPriv, sAt, sPair, sDrawn >>
registry   == << clients, clientFile, skipped >>
release    == << offered, dist >>
clientKeys == << cPub, cPriv, cAt, cPair, cDrawn >>
install    == << pinned, binary >>
updater    == << running, serverPub, step, temp >>
history    == << told, happened >>
vars == << serverKeys, registry, release, clientKeys, install, updater, faults, history >>

S == INSTANCE Keypair WITH pubFile <- sPub, privFile <- sPriv, at <- sAt, pair <- sPair, drawn <- sDrawn
C == INSTANCE Keypair WITH pubFile <- cPub, privFile <- cPriv, at <- cAt, pair <- cPair, drawn <- cDrawn

None    == 0
Garbled == -1
Keys    == 1 .. MaxFaults + 1

Serving == sAt = "on"
Nothing == [content |-> None, signer |-> 0]

Lasting == {"serverRead", "daemonRead", "unsigned", "unpinned"}

TypeOK ==
  /\ sAt \in {"off", "load", "pub", "priv", "on", "failed"}
  /\ cAt \in {"off", "load", "pub", "priv", "on", "failed"}
  /\ sDrawn \in {0} \cup Keys /\ cDrawn \in {0} \cup Keys
  /\ clients \subseteq Keys /\ skipped \subseteq Keys
  /\ clientFile \in [Keys -> {"missing", "broken", "whole"}]
  /\ offered \in Versions \cup {None} /\ dist \in Versions
  /\ pinned \in {0} \cup Keys
  /\ binary \in Versions \cup {None, Garbled} /\ running \in Versions \cup {None}
  /\ serverPub \in {0} \cup Keys
  /\ step \in {"off", "keys", "register", "cycle", "download", "replace"}
  /\ temp \in [content : Versions \cup {None, Garbled}, signer : {0} \cup Keys]
  /\ faults \in 0 .. MaxFaults
  /\ told \in {0} \cup Keys
  /\ happened \subseteq Lasting

Init ==
  /\ S!KeypairInit /\ C!KeypairInit
  /\ clients = {} /\ skipped = {} /\ clientFile = [k \in Keys |-> "missing"]
  /\ offered \in Versions \cup {None} /\ dist \in Versions
  /\ pinned = 0 /\ binary = None
  /\ running = None /\ serverPub = 0 /\ step = "off" /\ temp = Nothing
  /\ faults = 0 /\ told = 0 /\ happened = {}

Fault == faults < MaxFaults /\ faults' = faults + 1

LastingFault(kind) == Fault /\ happened' = happened \cup {kind}

-----------------------------------------------------------------------------
(* The server. *)

(***************************************************************************)
(* main: after the keys, LoadRegisteredClients reads the files that decode,*)
(* and passes over one that cannot be read.                                *)
(***************************************************************************)
ServerStarts ==
  /\ S!StartProcess \/ S!KeypairStep
  /\ LET whole == { k \in Keys : clientFile[k] = "whole" } IN
       IF sAt' = "on"
       THEN /\ clients' \in SUBSET whole /\ skipped' = whole \ clients'
            /\ IF skipped' = {} THEN UNCHANGED faults ELSE Fault
       ELSE clients' = {} /\ skipped' = {} /\ UNCHANGED faults
  /\ UNCHANGED << clientFile, release, clientKeys, install, updater, history >>

ServerKeyUnread ==
  /\ LastingFault("serverRead")
  /\ S!LoadUnread
  /\ UNCHANGED << registry, release, clientKeys, install, updater, told >>

ServerKeyWriteFails ==
  /\ Fault
  /\ S!WriteFails
  /\ UNCHANGED << registry, release, clientKeys, install, updater, history >>

ServerCrash ==
  /\ Fault
  /\ S!EndProcess
  /\ clients' = {} /\ skipped' = {}
  /\ UNCHANGED << clientFile, release, clientKeys, install, updater, history >>

(* Another version is installed; the directory of the binaries is a flag. *)
Redeploy ==
  /\ Serving /\ S!EndProcess
  /\ clients' = {} /\ skipped' = {}
  /\ offered' \in Versions \cup {None} /\ dist' \in Versions
  /\ UNCHANGED << clientFile, clientKeys, install, updater, faults, history >>

-----------------------------------------------------------------------------
(* The computer. *)

(* The script of install.go: server.pub and the binary. *)
Install ==
  /\ Serving /\ pinned = 0
  /\ pinned' = sPair[1] /\ binary' = dist
  /\ UNCHANGED << serverKeys, registry, release, clientKeys, updater, faults, history >>

(***************************************************************************)
(* main loads server.pub and, where that fails, goes on without it; a      *)
(* binary that is not whole does not get that far.                         *)
(***************************************************************************)
Start ==
  /\ pinned # 0 /\ binary # Garbled
  /\ step = "off" /\ step' = "keys"
  /\ C!StartProcess
  /\ running' = binary
  /\ \/ serverPub' = pinned /\ UNCHANGED << faults, happened >>
     \/ serverPub' = 0 /\ LastingFault("unpinned")
  /\ UNCHANGED << serverKeys, registry, release, install, temp, told >>

LoadKeys ==
  /\ step = "keys"
  /\ C!KeypairStep
  /\ step' = IF cAt' \in {"on", "failed"} THEN "register" ELSE "keys"
  /\ UNCHANGED << serverKeys, registry, release, install, running, serverPub, temp, faults, history >>

KeyUnread ==
  /\ LastingFault("daemonRead")
  /\ step = "keys"
  /\ C!LoadUnread
  /\ UNCHANGED << serverKeys, registry, release, install, updater, told >>

KeyWriteFails ==
  /\ Fault
  /\ step = "keys" /\ step' = "register"
  /\ C!WriteFails
  /\ UNCHANGED << serverKeys, registry, release, install, running, serverPub, temp, history >>

(***************************************************************************)
(* registerClient of the daemon, once after its start; without keys, or    *)
(* without an answer, it goes on.                                          *)
(***************************************************************************)
Unregistered ==
  /\ step = "register" /\ step' = "cycle"
  /\ cAt = "failed" \/ ~ Serving
  /\ UNCHANGED << serverKeys, registry, release, clientKeys, install, running, serverPub, temp, faults, history >>

MutRegisterClientIgnoresError(key) ==
  /\ clients' = clients \cup {key}
  /\ clientFile' \in { clientFile, [clientFile EXCEPT ![key] = "whole"] }
  /\ skipped' = skipped \ {key}

(* registerClient of the server: the file, then the list in memory. *)
RegisterClient(key) ==
  IF key \in clients THEN UNCHANGED registry
  ELSE /\ clients' = clients \cup {key}
       /\ clientFile' = [clientFile EXCEPT ![key] = "whole"]
       /\ skipped' = skipped \ {key}

Register ==
  /\ step = "register" /\ step' = "cycle"
  /\ cAt = "on" /\ Serving
  /\ RegisterClient(cPair[1])
  /\ \/ told' = cPair[1] /\ UNCHANGED faults
     \/ Fault /\ UNCHANGED told
  /\ UNCHANGED << serverKeys, release, clientKeys, install, running, serverPub, temp, happened >>

(* The server's write of the file fails, or the server ends in it. *)
RegisterFails ==
  /\ Fault
  /\ step = "register" /\ step' = "cycle"
  /\ cAt = "on" /\ Serving /\ cPair[1] \notin clients
  /\ clientFile' \in { clientFile, [clientFile EXCEPT ![cPair[1]] = "broken"] }
  /\ \/ UNCHANGED << serverKeys, clients, skipped >>
     \/ S!EndProcess /\ clients' = {} /\ skipped' = {}
  /\ told' = 0
  /\ UNCHANGED << release, clientKeys, install, running, serverPub, temp, happened >>

Trusted == Serving /\ serverPub \in {0, sPair[2]}

MutCheckVersionNewer ==
  /\ step = "cycle" /\ step' = "download"
  /\ Trusted
  /\ offered # None /\ offered > running
  /\ UNCHANGED << serverKeys, registry, release, clientKeys, install, running, serverPub, temp, faults, history >>

(***************************************************************************)
(* CheckAndUpdate: a trusted answer names another version.                 *)
(***************************************************************************)
CheckVersion ==
  /\ step = "cycle" /\ step' = "download"
  /\ Trusted
  /\ offered \notin {running, None}
  /\ UNCHANGED << serverKeys, registry, release, clientKeys, install, running, serverPub, temp, faults, history >>

(***************************************************************************)
(* fetchBinary into a new file next to the binary, which may by now be of  *)
(* a third version.  The content can get garbled.  The signature is in a   *)
(* header: the server sends it with every binary, but what the daemon gets *)
(* may have passed a proxy that dropped it, or be a proxy's own page.      *)
(***************************************************************************)
FetchBinary ==
  /\ step = "download"
  /\ \/ /\ Serving /\ step' = "replace"
        /\ \/ temp' = [content |-> dist, signer |-> sPair[2]] /\ UNCHANGED << faults, happened >>
           \/ temp' = [content |-> Garbled, signer |-> sPair[2]] /\ Fault /\ UNCHANGED happened
           \/ /\ \E content \in {dist, Garbled} : temp' = [content |-> content, signer |-> 0]
              /\ LastingFault("unsigned")
     \/ /\ step' = "cycle" /\ UNCHANGED << temp, happened >>
        /\ \/ ~ Serving /\ UNCHANGED faults
           \/ Fault
  /\ UNCHANGED << serverKeys, registry, release, clientKeys, install, running, serverPub, told >>

(* There is something to check if the daemon has a key and the answer a signature. *)
Verified ==
  serverPub # 0 /\ temp.signer # 0 => temp.content # Garbled /\ temp.signer = serverPub

MutReplaceUnverified ==
  /\ step = "replace" /\ temp' = Nothing
  /\ \/ /\ binary' = temp.content /\ step' = "off" /\ running' = None /\ serverPub' = 0
        /\ C!EndProcess /\ UNCHANGED faults
     \/ Fault /\ step' = "cycle" /\ UNCHANGED << binary, running, serverPub, clientKeys >>
  /\ UNCHANGED << serverKeys, registry, release, pinned, history >>

(* The file is renamed into place, and the daemon exits; or the rename fails. *)
Replace ==
  /\ step = "replace" /\ temp' = Nothing
  /\ \/ /\ Verified
        /\ binary' = temp.content /\ step' = "off" /\ running' = None /\ serverPub' = 0
        /\ C!EndProcess /\ UNCHANGED faults
     \/ /\ IF Verified THEN Fault ELSE UNCHANGED faults
        /\ step' = "cycle" /\ UNCHANGED << binary, running, serverPub, clientKeys >>
  /\ UNCHANGED << serverKeys, registry, release, pinned, history >>

(* A file downloaded is left behind, and never looked at again. *)
Crash ==
  /\ Fault
  /\ step # "off" /\ step' = "off"
  /\ C!EndProcess
  /\ running' = None /\ serverPub' = 0 /\ temp' = Nothing
  /\ UNCHANGED << serverKeys, registry, release, install, history >>

-----------------------------------------------------------------------------
Daemon ==
  \/ Start \/ LoadKeys \/ Unregistered \/ Register
  \/ CheckVersion \/ FetchBinary \/ Replace

Next ==
  \/ ServerStarts \/ ServerKeyUnread \/ ServerKeyWriteFails \/ ServerCrash \/ Redeploy
  \/ Install
  \/ Start \/ LoadKeys \/ KeyUnread \/ KeyWriteFails
  \/ Unregistered \/ Register \/ RegisterFails
  \/ CheckVersion \/ FetchBinary \/ Replace \/ Crash

Spec == Init /\ [][Next]_vars

(***************************************************************************)
(* systemd starts the daemon again after every exit (Restart=always).  Of  *)
(* the server nothing is assumed.                                          *)
(***************************************************************************)
FairSpec == Spec /\ WF_vars(Daemon)

-----------------------------------------------------------------------------
(***************************************************************************)
(* A computer trusts its server for good: the key left by the installation *)
(* is the one the server signs with whenever it serves, after any crashes  *)
(* and failing writes.  Only a failing read of the server's key files, at  *)
(* one of its starts, makes it sign with another.                          *)
(***************************************************************************)
ServerTrusted ==
  pinned # 0 /\ Serving /\ "serverRead" \notin happened => sPair[2] = pinned

(***************************************************************************)
(* README.md:76, the daemon "auto-registers with the server": of all the   *)
(* keys a daemon draws at starts that fail, at most one is ever known to   *)
(* the server, unless the daemon could not read its own files, ...         *)
(***************************************************************************)
OneIdentity ==
  "daemonRead" \notin happened =>
    \A k, l \in Keys : clientFile[k] # "missing" /\ clientFile[l] # "missing" => k = l

(***************************************************************************)
(* ... and one whose registration was confirmed is accepted whenever the   *)
(* server serves, until a start of the server at which its file cannot be  *)
(* read; and it is the daemon's key for good, under the same exception.    *)
(***************************************************************************)
ToldIsAccepted ==
  told # 0 => /\ Serving => told \in clients \cup skipped
              /\ cAt = "on" /\ "daemonRead" \notin happened => cPair[2] = told

(***************************************************************************)
(* A download that got garbled is never installed, unless some answer had  *)
(* lost its signature or the daemon had started without the server's key.  *)
(***************************************************************************)
BinaryWhole == binary = Garbled => happened \cap {"unsigned", "unpinned"} # {}

(***************************************************************************)
(* update.go:17, "The binary signature is verified with the server's       *)
(* public key": a daemon that has that key installs what is signed with    *)
(* it, and nothing else.                                                   *)
(***************************************************************************)
InstallsWhatIsSigned ==
  [][step = "replace" /\ step' = "off" /\ binary' # binary /\ serverPub # 0
       => temp.content # Garbled /\ temp.signer = serverPub]_vars

(***************************************************************************)
(* Versions go forward and back, but once the server serves with the key   *)
(* the computer knows, announces and hands out the same one, the computer  *)
(* ends up running it, and stays with it: the daemon does not update again *)
(* and again.  Only a binary that cannot run is there for good.            *)
(***************************************************************************)
UpdatesSettle ==
  \A v \in Versions :
    <>[](pinned # 0 /\ Serving /\ sPair[2] = pinned /\ offered = v /\ dist = v /\ binary # Garbled)
      => <>[](binary = v /\ running = v)
=============================================================================
