--------------------------- MODULE MCServerConnect ---------------------------
(***************************************************************************)
(* Three servers: one that supports obfuscation, one known by name, one    *)
(* whose address is filtered.                                              *)
(***************************************************************************)
EXTENDS ServerConnect

CONSTANTS plain, named, blocked

MCServers == <<plain, blocked, named>>
MCTwoServers == <<plain, named>>
==============================================================================
