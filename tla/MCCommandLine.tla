---------------------------- MODULE MCCommandLine ----------------------------
(* Model-checking instance of CommandLine.  The buffer sizes keep the    *)
(* build's relations at a small scale: first_cmd and getargbuf (20, 30)  *)
(* are shorter than the lines the shell can pass, and arg_line equals    *)
(* the keyboard line (128 = 128).  The command alphabet is one letter    *)
(* and the space, which is all the tokenizer tells apart; the keyboard   *)
(* types one letter, since the line discipline never looks at which.     *)
EXTENDS CommandLine

MC_Chars == {"a", " "}

MC_Keys == {"a"}

(* Every command line up to the line length. *)
MC_Commands == SeqOf(MC_Chars, 6)

(* Every command line that can hold a word, a space and a word with     *)
(* leading, repeated or trailing spaces around them.                     *)
MC_ShortCommands == SeqOf(MC_Chars, 4)

MC_Programs == {<<"a">>, <<"a", "a">>}
====
