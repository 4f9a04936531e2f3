------------------------------- MODULE MCSession -------------------------------
(* Constants for model checking Session.                                   *)
EXTENDS Session

MCEmails    == {"ann", "bob"}
MCPasswords == {"secret", "abc"}
MCShort     == {"abc"}
===============================================================================
