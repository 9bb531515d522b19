----------------------------- MODULE LongFormat -----------------------------
(***************************************************************************)
(* The long listing: printer_list of src/src/ft_printer_list.c, and the    *)
(* lengths of the fields prepare_list_infos (ft_file_info.c) gives it.     *)
(* The widths of the columns come from the fields of the entries, and from *)
(* the status of the entries of another list (list_width_context: the      *)
(* directories still to be listed, whose own fields are not known yet).    *)
(* A row is the columns at which its fields end; the characters are left   *)
(* out, and how they leave the buffer is OutBuf's.  The names of owners    *)
(* and groups come from NameCache.                                         *)
(***************************************************************************)
EXTENDS Integers, Sequences, NameCache

CONSTANTS
  Word64,    \* uint64_t is 0..Word64 - 1
  MaxField,  \* the length of the longest field of an entry
  Options,   \* no_owner, no_group, quote_padding and is_stdout of a request
  Lists,     \* entries of a listing
  Contexts   \* list_width_context; empty for NULL

VARIABLES
  opts,     \* the options of the request
  entries,  \* req->entries
  context,  \* req->list_width_context
  stage,    \* "user", "group" or "info" of an entry; "stats", "context",
            \* "rows" or "done"
  index,    \* the index of the loop
  names,    \* username and groupname of the entry
  infos,    \* infos: the lengths of the fields
  stats,    \* t_list_stats
  rows      \* the rows printed

request == <<opts, entries, context>>
listVars == <<request, stage, index, names, infos, stats, rows, cacheVars>>

Columns == {"perm", "links", "user", "group", "size", "major", "minor"}

ListInit ==
  /\ CacheInit
  /\ opts \in Options /\ entries \in Lists /\ context \in Contexts
  /\ stage = "user" /\ index = 1
  /\ names = [k \in Kinds |-> << >>] /\ infos = << >>
  /\ stats = [len |-> [c \in Columns |-> 0], quote |-> FALSE, blocks |-> 0]
  /\ rows = << >>

(* str_uint_len *)
UintLen[v \in Nat] == IF v < 10 THEN 1 ELSE 1 + UintLen[v \div 10]

(* What t_entry has of a file; its numbers reach str_uint_len as uint64_t. *)
UInt64 == 0..(Word64 - 1)
Entry ==
  [bad : BOOLEAN, dev : BOOLEAN, xattr : BOOLEAN, quote : BOOLEAN, links : UInt64,
   id : [Kinds -> Id], size : UInt64, major : UInt64, minor : UInt64, blocks : Nat]

(* The lists a request has, and the longest field: it holds any uint64_t,  *)
(* and a row of such fields does not reach the end of memory.              *)
ASSUME RequestAssumption ==
  /\ Options \subseteq [noOwner : BOOLEAN, noGroup : BOOLEAN,
                       quotePadding : BOOLEAN, tty : BOOLEAN]
  /\ Lists \subseteq Seq(Entry) /\ Contexts \subseteq Seq(Entry)

ASSUME FieldAssumption ==
  /\ MaxField \in Nat /\ Word64 \in Nat /\ 11 <= MaxField /\ 10 * MaxField < Word64
  /\ UintLen[Word64 - 1] <= MaxField
  /\ \A k \in Kinds : \A name \in Name[k] : Len(name) <= MaxField

(* An entry without a status has "?" in most columns and, if it is a       *)
(* device, the numbers 0 and 0.  A column that is not there has length 0.  *)
Known(e, len) == IF e.bad THEN 1 ELSE len

(* get_perm_, get_links_, get_size_, get_blk_                              *)
PermLen(e) == IF e.xattr /\ ~e.bad THEN 11 ELSE 10
LinksLen(e) == Known(e, UintLen[e.links])
SizeLen(e) == IF e.dev THEN 0 ELSE Known(e, UintLen[e.size])
DevLen(e, number) == IF e.dev THEN Known(e, UintLen[number]) ELSE 0

FieldLen(e, c) ==
  CASE c = "perm"  -> PermLen(e)
    [] c = "links" -> LinksLen(e)
    [] c \in Kinds -> Len(names[c])
    [] c = "size"  -> SizeLen(e)
    [] c = "major" -> DevLen(e, e.major)
    [] c = "minor" -> DevLen(e, e.minor)

(* get_dt_: the month and the day, then the time or the year.              *)
DateLen == 7 + 5

More(list) == index <= Len(list)
Advance == index' = index + 1 /\ UNCHANGED stage
Begin(step) == stage' = step /\ index' = 1

(* fill_file_info_: the owner, the group, then the other fields.           *)
FillName(k) ==
  /\ stage = k /\ More(entries)
  /\ IF entries[index].bad
     THEN names' = [names EXCEPT ![k] = <<"?">>] /\ UNCHANGED cacheVars
     ELSE GetName(k, entries[index].id[k]) /\ names' = [names EXCEPT ![k] = shown'.name]
  /\ stage' = IF k = "user" THEN "group" ELSE "info"
  /\ UNCHANGED <<request, index, infos, stats, rows>>

FillFileInfo ==
  /\ stage = "info"
  /\ infos' = Append(infos, [c \in Columns |-> FieldLen(entries[index], c)])
  /\ stage' = "user" /\ index' = index + 1
  /\ UNCHANGED <<request, names, stats, rows, cacheVars>>

(* An allocation, time, ctime or a readlink fails: nothing is printed.     *)
FillFails ==
  /\ stage \in {"user", "group", "info"}
  /\ stage' = "done"
  /\ UNCHANGED <<request, index, names, infos, stats, rows, cacheVars>>

InfosDone ==
  /\ stage = "user" /\ ~More(entries)
  /\ Begin("stats")
  /\ UNCHANGED <<request, names, infos, stats, rows, cacheVars>>

(* Mutant of Widened: the last entry decides.                              *)
WidenedLast(widths, lens) == lens

Widened(widths, lens) ==
  [c \in Columns |-> IF lens[c] > widths[c] THEN lens[c] ELSE widths[c]]

UpdateStats ==
  /\ stage = "stats" /\ More(entries)
  /\ stats' = [len    |-> Widened(stats.len, infos[index]),
               quote  |-> stats.quote \/ entries[index].quote,
               blocks |-> stats.blocks + entries[index].blocks]
  /\ Advance
  /\ UNCHANGED <<request, names, infos, rows, cacheVars>>

StatsDone ==
  /\ stage = "stats" /\ ~More(entries)
  /\ Begin("context")
  /\ UNCHANGED <<request, names, infos, stats, rows, cacheVars>>

(* apply_width_: only the columns that hold numbers.  A device without a   *)
(* status counts as a file.                                                *)
ContextLen(e, c) ==
  CASE c = "links"                            -> LinksLen(e)
    [] c \in {"major", "minor"} /\ ~e.bad     -> FieldLen(e, c)
    [] c = "size" /\ (e.bad \/ ~e.dev)         -> Known(e, UintLen[e.size])
    [] OTHER                                  -> 0

ApplyWidth ==
  /\ stage = "context" /\ More(context)
  /\ stats' = [stats EXCEPT !.len =
       Widened(@, [c \in Columns |-> ContextLen(context[index], c)])]
  /\ Advance
  /\ UNCHANGED <<request, names, infos, rows, cacheVars>>

ContextDone ==
  /\ stage = "context" /\ ~More(context)
  /\ stats' = [stats EXCEPT !.quote = @ \/ opts.quotePadding]
  /\ Begin("rows")
  /\ UNCHANGED <<request, names, infos, rows, cacheVars>>

(* Mutant of DevWidth: the comma is counted, the blank after it is not.    *)
DevWidthTight(w) == IF w.major = 0 /\ w.minor = 0 THEN 0 ELSE w.major + 1 + w.minor

DevWidth(w) == IF w.major = 0 /\ w.minor = 0 THEN 0 ELSE w.major + 2 + w.minor
SizeWidth(w) == IF w.size > DevWidth(w) THEN w.size ELSE DevWidth(w)

(* left_pad_: the count is unsigned.                                       *)
LeftPad(len, width) == (width - len) % Word64
Padded(len, width) == len + LeftPad(len, width)

(* The device numbers or the size, right-aligned.                          *)
SizeField(info, w) ==
  IF info.major > 0
  THEN LeftPad(DevWidth(w), SizeWidth(w))
       + Padded(info.major, w.major) + 2 + Padded(info.minor, w.minor)
  ELSE Padded(info.size, SizeWidth(w))

(* One row: where its fields end, and where the name itself begins, after  *)
(* its quote or the blank in place of one.                                 *)
Row(e, info, w) ==
  LET perm  == Padded(info.perm, w.perm) + 1
      links == perm + Padded(info.links, w.links)
      user  == links + 1 + IF opts.noOwner THEN 0 ELSE Padded(info.user, w.user) + 1
      group == user + IF opts.noGroup THEN 0 ELSE Padded(info.group, w.group) + 1
      size  == group + SizeField(info, w)
      date  == size + 1 + DateLen
  IN  [perm |-> perm, links |-> links, user |-> user, group |-> group, size |-> size,
       name |-> date + 1 + IF opts.tty /\ (e.quote \/ stats.quote) THEN 1 ELSE 0]

PrintRow ==
  /\ stage = "rows" /\ More(entries)
  /\ rows' = Append(rows, Row(entries[index], infos[index], stats.len))
  /\ Advance
  /\ UNCHANGED <<request, names, infos, stats, cacheVars>>

RowsDone ==
  /\ stage = "rows" /\ ~More(entries)
  /\ stage' = "done"
  /\ UNCHANGED <<request, names, index, infos, stats, rows, cacheVars>>

ListNext ==
  \/ \E k \in Kinds : FillName(k)
  \/ FillFileInfo \/ FillFails \/ InfosDone
  \/ UpdateStats \/ StatsDone
  \/ ApplyWidth \/ ContextDone
  \/ PrintRow \/ RowsDone

ListSpec == ListInit /\ [][ListNext]_listVars
-----------------------------------------------------------------------------
ListTypeOK ==
  /\ stage \in Kinds \cup {"info", "stats", "context", "rows", "done"}
  /\ index \in Nat \ {0}
  /\ infos \in Seq([Columns -> Nat])
  /\ stats \in [len : [Columns -> Nat], quote : BOOLEAN, blocks : Nat]
  /\ \A i \in 1..Len(rows) : \A c \in DOMAIN rows[i] : rows[i][c] \in 0..(Word64 - 1)

(* The rows form a table: every column ends at the same place in all rows, *)
(* whether a row shows a size, device numbers or question marks, whichever *)
(* other list has widened a column and whatever the database answered; no  *)
(* padding is negative (ft_printer_list.c:178).                            *)
Table == ListTypeOK /\ \A i, j \in 1..Len(rows) : rows[i] = rows[j]

(* The database is not asked again for one of the last CacheSize ids it    *)
(* was asked for, unless their name was empty: one name for an id in a     *)
(* listing that names few ids (ft_file_info.c:402).                        *)
AskedOnce ==
  [][\A k \in Kinds, id \in Id :
       stage = k /\ (Resolve(k, id) \/ AskFails(k, id)) =>
         \A i \in 1..Len(recent[k]) :
           recent[k][i].id = id => recent[k][i].name = << >>]_listVars
=============================================================================
