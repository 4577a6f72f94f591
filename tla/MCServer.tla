------------------------------- MODULE MCServer -------------------------------
(* Instances of Server for TLC.                                             *)
EXTENDS Server

CONSTANTS ip, user \* keys of LoginPerIP and LoginPerUsername

MCBuckets  == {ip, user}
MCBindings == {<<>>, <<ip, user>>}
=============================================================================
