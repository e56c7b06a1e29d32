------------------------------ MODULE MCClient ------------------------------
(* Client with the command lines that TLC tries.                            *)
EXTENDS Client

Job1(kind) == [kind |-> kind, program |-> FALSE, pause |-> FALSE, tries |-> 1]
Password(program, pause, tries) ==
    [kind |-> "password", program |-> program, pause |-> pause, tries |-> tries]
Question(pause) ==
    [kind |-> "question", program |-> FALSE, pause |-> pause, tries |-> 1]

Commands(jobs) == [jobs |-> jobs, early |-> FALSE, wait |-> FALSE]
Options(jobs)  == [jobs |-> jobs, early |-> TRUE, wait |-> FALSE]

(* One command of each kind, two that can overtake each other, a main       *)
(* option with a command, and --wait.                                       *)
Lines == {
    Options(<<Job1("ping")>>),
    Options(<<Job1("quit")>>),
    Options(<<Job1("password")>>),
    Options(<<Job1("plain"), Password(TRUE, FALSE, 2)>>),
    Commands(<<Password(TRUE, TRUE, 2)>>),
    Commands(<<Password(TRUE, FALSE, 1)>>),
    Commands(<<Password(TRUE, FALSE, 3)>>),
    Commands(<<Password(FALSE, TRUE, 1)>>),
    Commands(<<Question(TRUE)>>),
    Commands(<<Job1("keystroke"), Password(TRUE, TRUE, 1)>>),
    Commands(<<Job1("plain"), Job1("plain"), Job1("quit")>>),
    Commands(<<Job1("quit"), Question(FALSE), Job1("plain")>>),
    [jobs |-> <<>>, early |-> FALSE, wait |-> TRUE],
    [jobs |-> <<Job1("plain")>>, early |-> FALSE, wait |-> TRUE] }

=============================================================================
