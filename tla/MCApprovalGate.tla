--------------------------- MODULE MCApprovalGate ---------------------------
(* A small instance of ApprovalGate: the calls and entries that take every  *)
(* branch of the decision chain.                                           *)
EXTENDS ApprovalGate

CONSTANTS exact, glob, ruled, stop

Shell == [kind |-> "shell", cwd |-> "project", floor |-> "none",
          hardline |-> FALSE, freeAt |-> {}, grant |-> exact, denial |-> exact]

\* A plain command and the same one run outside the project: one exact entry
\* remembers both.  A command of the declared glob.
Plain     == Shell
Outside   == [Shell EXCEPT !.cwd = "outside"]
Globbed   == [Shell EXCEPT !.grant = NoEntry, !.denial = NoEntry]
Pushes    == [Globbed EXCEPT !.denial = stop]
Fetches   == [Globbed EXCEPT !.floor = "host"]
Leaks     == [Globbed EXCEPT !.floor = "leak"]
BadCwd    == [Globbed EXCEPT !.cwd = "refused"]
Hardline  == [Globbed EXCEPT !.hardline = TRUE]
Malformed == [Globbed EXCEPT !.kind = "malformed"]
WriteTool == [Globbed EXCEPT !.kind = "tool", !.freeAt = {"write"},
                             !.grant = ruled, !.denial = ruled]

MCCalls == {Plain, Outside, Globbed, Pushes, Fetches, Leaks, BadCwd, Hardline,
            Malformed, WriteTool}

MCCovers  == [e \in Entries |->
                CASE e = exact -> {Plain, Outside}
                  [] e = glob  -> {Globbed, Pushes, Hardline, Outside}
                  [] e = ruled -> {WriteTool}
                  [] e = stop  -> {Pushes}]

\* What a restrictive entry matches or cannot decide is more.
MCForbids == [e \in Entries |->
                CASE e = exact -> {Plain, Outside, Fetches}
                  [] e = glob  -> {Globbed, Pushes, Hardline, Outside, Leaks}
                  [] e = ruled -> {WriteTool, Malformed}
                  [] e = stop  -> {Pushes, Leaks}]
=============================================================================
