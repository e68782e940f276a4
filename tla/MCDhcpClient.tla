---------------------------- MODULE MCDhcpClient ----------------------------
(***************************************************************************)
(* Two interfaces that share the rax lease file (the ethx file is read by  *)
(* every process too), and two servers with an address each, one of which  *)
(* sends no router option.                                                 *)
(***************************************************************************)
EXTENDS DhcpClient

CONSTANTS s1, s2, a1, a2

MCIfType == [i \in Ifs |-> "rax"]
MCPool == [s \in Servers |-> IF s = s1 THEN {a1} ELSE {a2}]

=============================================================================
