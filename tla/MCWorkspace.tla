---------------------------- MODULE MCWorkspace ----------------------------
EXTENDS Workspace, TLC

CONSTANTS a, b

MCAuth == (a :> "key") @@ (b :> "password")
MCGateway == (a :> "password") @@ (b :> "none")
=============================================================================
