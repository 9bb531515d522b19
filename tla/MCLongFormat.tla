---------------------------- MODULE MCLongFormat ----------------------------
(***************************************************************************)
(* Model-checking instance of LongFormat: lists of two entries out of a    *)
(* small and a large file, devices with short and long numbers, a file and *)
(* a device that lstat could not reach, a name in quotes; and four files   *)
(* of three owners in a ring of two.  Names are empty or longer than a     *)
(* slot, numbers are short.                                                *)
(***************************************************************************)
EXTENDS LongFormat

File == [bad |-> FALSE, dev |-> FALSE, xattr |-> FALSE, quote |-> FALSE, links |-> 1,
         id |-> [user |-> 0, group |-> 0], size |-> 7, major |-> 0, minor |-> 0,
         blocks |-> 1]
Device == [File EXCEPT !.dev = TRUE, !.major = 8, !.minor = 120]
Of(user) == [File EXCEPT !.id.user = user]

MCId == 0..2
MCName == [user |-> {<< >>, <<"x", "y", "z">>}, group |-> {<<"x", "y", "z">>}]
MCEntries ==
  {File, [File EXCEPT !.size = 1234567, !.links = 12, !.id.user = 1, !.blocks = 4],
   Device, [Device EXCEPT !.major = 120, !.minor = 1],
   [File EXCEPT !.bad = TRUE], [Device EXCEPT !.bad = TRUE],
   [File EXCEPT !.quote = TRUE, !.xattr = TRUE, !.size = 12]}
MCLists ==
  UNION {[1..n -> MCEntries] : n \in 0..2}
  \cup {<<Of(0), Of(1), Of(2), Of(u)>> : u \in MCId}
  \cup {<<Of(1), Device, Of(1)>>}
MCOptions ==
  {[noOwner |-> FALSE, noGroup |-> FALSE, quotePadding |-> TRUE, tty |-> TRUE],
   [noOwner |-> TRUE, noGroup |-> FALSE, quotePadding |-> FALSE, tty |-> TRUE],
   [noOwner |-> FALSE, noGroup |-> TRUE, quotePadding |-> FALSE, tty |-> FALSE]}
Dir == [File EXCEPT !.size = 4096, !.links = 3]
MCContexts == {<< >>, <<[Dir EXCEPT !.size = 123456789], Dir>>}
=============================================================================
