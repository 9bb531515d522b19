----------------------------- MODULE NameCache -----------------------------
(***************************************************************************)
(* The names of users and groups in the long format (get_user_ and         *)
(* get_group_ of src/src/ft_file_info.c): a ring of cached names for each, *)
(* filled from the user database.  The database belongs to others: each    *)
(* call answers afresh.  A name is a sequence of characters, an id that    *)
(* has none is printed as a number.  LongFormat calls the operations.      *)
(***************************************************************************)
EXTENDS Naturals, Sequences, TLC

CONSTANTS
  Id,         \* user and group ids; 0 is root's
  Name,       \* Name["user"], Name["group"]: names the database may give
  CacheSize,  \* CACHE_SIZE
  MaxName     \* LOGIN_NAME_MAX - 1

ASSUME CacheAssumption == CacheSize \in Nat \ {0} /\ MaxName \in Nat \ {0}
ASSUME IdAssumption ==
  /\ Id \subseteq Nat /\ \A id \in Id : ToString(id) \in STRING
  /\ \A k \in {"user", "group"} : Name[k] \subseteq Seq(STRING)

VARIABLES
  cache,    \* user_cache and group_cache
  next,     \* user_index and group_index
  shown,    \* the name the last call returned
  said,     \* auxiliary: what the database has said of each id
  recent    \* auxiliary: what was stored last, at most CacheSize entries

cacheVars == <<cache, next, shown, said, recent>>

Kinds == {"user", "group"}
Empty == [name |-> << >>, id |-> 0]
Nothing == [kind |-> "none"]

CacheInit ==
  /\ cache = [k \in Kinds |-> [i \in 0..(CacheSize - 1) |-> Empty]]
  /\ next = [k \in Kinds |-> 0]
  /\ shown = Nothing
  /\ said = [k \in Kinds |-> [id \in Id |-> {}]]
  /\ recent = [k \in Kinds |-> << >>]

(* str_arena_from_uint of the id.                                          *)
Number(id) == <<ToString(id)>>

(* ft_strlcpy into a slot.                                                 *)
Truncated(name) == SubSeq(name, 1, IF Len(name) < MaxName THEN Len(name) ELSE MaxName)

(* Mutant of Slots: the name is not consulted.                             *)
SlotsEvenEmpty(k, id) == {i \in DOMAIN cache[k] : cache[k][i].id = id}

(* Mutant of Slots: the search stops at the first empty slot.              *)
SlotsToFirstEmpty(k, id) ==
  {i \in DOMAIN cache[k] :
     cache[k][i].id = id /\ \A j \in 0..i : cache[k][j].name # << >>}

(* cache_lookup_: the slots in use that hold id; the first one is taken.   *)
Slots(k, id) ==
  {i \in DOMAIN cache[k] : cache[k][i].name # << >> /\ cache[k][i].id = id}
Lookup(k, id) ==
  cache[k][CHOOSE i \in Slots(k, id) : \A j \in Slots(k, id) : i <= j].name

(* Mutant of Index: the last slot is never used.                           *)
IndexShort(k) == next[k] % (CacheSize - 1)

Index(k) == next[k] % CacheSize

(* cache_store_ *)
Store(k, id, name) ==
  /\ cache' = [cache EXCEPT ![k][Index(k)] = [name |-> Truncated(name), id |-> id]]
  /\ next' = [next EXCEPT ![k] = @ + 1]
  /\ recent' = [recent EXCEPT ![k] =
       Append(IF Len(@) = CacheSize THEN Tail(@) ELSE @, [id |-> id, name |-> name])]

Show(k, id, name) == shown' = [kind |-> k, id |-> id, name |-> name]

Hit(k, id) ==
  /\ Slots(k, id) # {}
  /\ Show(k, id, Lookup(k, id))
  /\ UNCHANGED <<cache, next, said, recent>>

(* getpwuid, getgrgid: the id has this name, or none at all.               *)
Ask(k, id, name) ==
  /\ Slots(k, id) = {}
  /\ Show(k, id, name)
  /\ said' = [said EXCEPT ![k][id] = @ \cup {name}]

Resolve(k, id) ==
  \E name \in Name[k] \cup {Number(id)} : Ask(k, id, name) /\ Store(k, id, name)

(* The database cannot be read: the number is printed but not kept.        *)
AskFails(k, id) ==
  /\ Ask(k, id, Number(id))
  /\ UNCHANGED <<cache, next, recent>>

(* get_user_, get_group_ of an entry with a status.                        *)
GetName(k, id) == Hit(k, id) \/ Resolve(k, id) \/ AskFails(k, id)
-----------------------------------------------------------------------------
CacheTypeOK ==
  /\ cache \in [Kinds -> [0..(CacheSize - 1) -> [name : Seq(STRING), id : Id \cup {0}]]]
  /\ next \in [Kinds -> Nat]
  /\ \A k \in Kinds, i \in 0..(CacheSize - 1) : Len(cache[k][i].name) <= MaxName

(* A name shown is one the database has given for that very id (cut to     *)
(* LOGIN_NAME_MAX when it comes from the cache), of a user for a user and  *)
(* of a group for a group: the zeroed slots are no answer for id 0         *)
(* (ft_file_info.c:388).  And an id is cached once at most, so that no     *)
(* older name survives beside a newer one, even after empty names have     *)
(* left holes in the ring (:400).                                          *)
Honest ==
  /\ CacheTypeOK
  /\ shown # Nothing =>
       \E name \in said[shown.kind][shown.id] : shown.name \in {name, Truncated(name)}
  /\ \A k \in Kinds, id \in Id : \A i, j \in Slots(k, id) : i = j
=============================================================================
