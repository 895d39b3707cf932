---------------------------- MODULE ToolDriversMC ----------------------------
(* Two drivers of one name with a tool each, and one of another name that competes for a tool. *)
EXTENDS ToolDrivers, TLC

CONSTANTS fs, fs2, db, r1, r2, c1, c2, get, put, files, data

Choice == (r1 :> {fs, db}) @@ (r2 :> {fs2, db})
TwoNames == (fs :> files) @@ (fs2 :> files) @@ (db :> data)
Overlapping == (fs :> {get}) @@ (fs2 :> {put}) @@ (db :> {get})

=============================================================================
