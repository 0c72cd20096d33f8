----------------------- MODULE MCPostgresAuthority -----------------------
(* Small instances of PostgresAuthority for TLC.                          *)
EXTENDS PostgresAuthority

CONSTANTS w1, t1, d1, api, tool

OneWorker == {w1}
OneTask == {t1}
OnePayload == {d1}
AllCapable == Worker \X Task
NoDelay == {0}

\* An API process that is asked for /meta, and another process.
OneApi == {api}
ApiAndTool == {api, tool}
==========================================================================

