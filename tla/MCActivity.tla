------------------------------ MODULE MCActivity ------------------------------
(***************************************************************************)
(* Values for the constants of Activity.  A game runs as two executables   *)
(* with one display name.                                                  *)
(***************************************************************************)
EXTENDS Activity, TLC

MCNames == ("game" :> "Game") @@ ("launcher" :> "Game")
MCApps == {"Game"}
MCExes == DOMAIN MCNames
=============================================================================
