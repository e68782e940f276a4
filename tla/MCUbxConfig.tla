---------------------------- MODULE MCUbxConfig ----------------------------
(* UbxConfig with three attempts per command and three std commands.       *)
EXTENDS UbxConfig
=============================================================================
