-------------------------- MODULE MCDispatchSqlite --------------------------
EXTENDS SqliteDispatchQueue

CONSTANTS c1, c2
MCEntry == 1 .. 2
MCConsumer == { c1, c2 }
=============================================================================
