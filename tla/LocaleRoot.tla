----------------------------- MODULE LocaleRoot -----------------------------
(***************************************************************************)
(* The localised files of a root directory (locale-root.c): which folders  *)
(* are looked for a list of languages, the searches made for such lists,   *)
(* shared through a small cache, and the count of who uses them.           *)
(*                                                                         *)
(* The folders of "locales/" and the languages are compared whatever their *)
(* case: here a letter is a number, that stands for both cases.  A         *)
(* definition is the sequence of the languages that its commas separate,   *)
(* without their parameters nor blanks.  A path is the sequence of the     *)
(* names that its '/' separate: "" is the name before a '/' that starts a  *)
(* path, after one that ends it, and between two that follow each other.   *)
(***************************************************************************)
EXTENDS Integers, Sequences, FiniteSets, SequencesExt

CONSTANTS
    Roots,          \* the root directories
    Folders,        \* of each root, the folders of locales/: sequences of letters
    Tree,           \* of each root, what each folder and the root itself hold
    Definitions,    \* lists of languages that may be asked
    LRU_COUNT       \* searches kept

(* Letters are positive; the '-' of a name comes before them.              *)
Dash == 0

(* The place of the files that are in no folder of locales/.               *)
Root == <<>>

ASSUME NamesAssumption ==
    /\ \A r \in Roots : Folders[r] \subseteq Seq(Nat) \ {Root} /\ IsFiniteSet(Folders[r])
    /\ Definitions \subseteq Seq(Seq(Nat))
ASSUME LruAssumption == LRU_COUNT \in Nat \ {0}
ASSUME TreeAssumption ==
    \A r \in Roots :
        /\ DOMAIN Tree[r] = Folders[r] \cup {Root}
        /\ \A p \in DOMAIN Tree[r] : \A n \in DOMAIN Tree[r][p] : Tree[r][p][n] \in {"file", "dir", "special"}

-----------------------------------------------------------------------------
(* The folders.                                                            *)

Min2(a, b) == IF a < b THEN a ELSE b

(* strcasecmp: -1, 0 or 1.                                                 *)
Order(x, y) ==
    LET diff == {i \in 1..Min2(Len(x), Len(y)) : x[i] # y[i]}
    IN  IF diff = {} THEN IF Len(x) = Len(y) THEN 0 ELSE IF Len(x) < Len(y) THEN -1 ELSE 1
        ELSE IF \E i \in diff : x[i] < y[i] /\ \A j \in diff : i <= j THEN -1 ELSE 1

(* strncasecmp, over the length first characters.                          *)
Compare(a, b, length) ==
    Order(SubSeq(a, 1, Min2(Len(a), length)), SubSeq(b, 1, Min2(Len(b), length)))

Before(a, b) == Order(a, b) < 0

(* The folders found by readdir, after qsort.                              *)
folders == [r \in Roots |-> SetToSortSeq(Folders[r], Before)]

(* search_folder: a dichotomy over the sorted folders fs, for the length   *)
(* first characters of name.                                               *)
search_folder(fs, name, length) ==
    LET search[b \in (0..Len(fs)) \X (0..Len(fs))] ==
          LET mid == (b[1] + b[2]) \div 2
              c == Compare(fs[mid + 1], name, length)
          IN  IF b[1] >= b[2] THEN <<>>
              ELSE IF c = 0 /\ Len(fs[mid + 1]) = length THEN fs[mid + 1]
              ELSE IF c >= 0 THEN search[<<b[1], mid>>] ELSE search[<<mid + 1, b[2]>>]
    IN  search[<<0, Len(fs)>>]

(* The lengths to which name is cut, one '-' after the other, from the     *)
(* longest; create_search takes a run of '-' as one.                       *)
Cuts(name, runs) ==
    SetToSortSeq({j \in 1..Len(name) - 1 : name[j + 1] = Dash /\ (runs => name[j] # Dash)}, >)

(* The first of the folders that name is cut to.                           *)
FirstFolder(fs, name, cuts) ==
    LET found == SelectSeq(cuts, LAMBDA j : search_folder(fs, name, j) # <<>>)
    IN  IF found = <<>> THEN <<>> ELSE search_folder(fs, name, Head(found))

(* init_container: each folder is linked to a shorter one.                 *)
parent(fs, f) == FirstFolder(fs, f, Cuts(f, FALSE))

(* search_append_folder.                                                   *)
Appended(list, f) == IF f = <<>> \/ Contains(list, f) THEN list ELSE Append(list, f)

(* create_search, without immediate: the best folder of each language, in  *)
(* their order, then the parents of the folders listed, these included.    *)
SearchOf(fs, definition) ==
    LET best[i \in 0..Len(definition)] ==
          IF i = 0 THEN <<>>
          ELSE LET t == definition[i]
               IN  Appended(best[i - 1], FirstFolder(fs, t, <<Len(t)>> \o Cuts(t, TRUE)))
        full[i \in 0..Len(fs)] ==
          IF i = 0 THEN best[Len(definition)]
          ELSE IF i > Len(full[i - 1]) THEN full[i - 1]
          ELSE Appended(full[i - 1], parent(fs, full[i - 1][i]))
    IN  full[Len(fs)]

SearchList == [r \in Roots |-> [d \in Definitions |-> SearchOf(folders[r], d)]]

-----------------------------------------------------------------------------
(* Paths.                                                                  *)

(* What a name does to the level: a level that was too low stays so.       *)
Level(level, name) ==
    IF name \in {"", "."} THEN level
    ELSE IF name = ".." THEN level - 1
    ELSE IF level >= 0 THEN level + 1 ELSE level

validsubpath(path) == FoldLeft(Level, 0, path) >= 0

(* What openat finds (external): its kind, "none", "error" when a file is  *)
(* taken for a directory, "above" when the path leaves the place.          *)
Open(r, place, path) ==
    LET Step(s, name) ==
          IF s.kind # "dir" THEN IF s.kind \in {"file", "special"} THEN [s EXCEPT !.kind = "error"] ELSE s
          ELSE IF name \in {"", "."} THEN s
          ELSE IF name # ".."
               THEN LET at == Append(s.at, name)
                    IN  [at |-> at, kind |-> IF at \in DOMAIN Tree[r][place] THEN Tree[r][place][at] ELSE "none"]
          ELSE IF s.at = <<>> THEN [s EXCEPT !.kind = "above"] ELSE [s EXCEPT !.at = Front(s.at)]
    IN  FoldLeft(Step, [at |-> <<>>, kind |-> "dir"], path).kind

(* do_open, do_resolve: the place and the kind of what is found.  The      *)
(* folders of the default search are only looked at after the ones of a    *)
(* search that has some; an error met in a folder is forgotten.            *)
do_open(r, list, default, path) ==
    LET places == IF list = <<>> THEN <<>> ELSE list \o default
        hits == SelectSeq(places, LAMBDA p : Open(r, p, path) \notin {"none", "error"})
        place == IF hits = <<>> THEN Root ELSE Head(hits)
    IN  IF ~validsubpath(path) THEN [place |-> Root, kind |-> "error"]
        ELSE [place |-> place, kind |-> Open(r, place, path)]

-----------------------------------------------------------------------------
(* The searches of a root R: those of R.search whose refcount is not 0.    *)

NoSearch == 0
Ids == 1..LRU_COUNT + 2
FreeSearch == [definition |-> <<>>, list |-> <<>>, refcount |-> 0]

locale_root_create ==
    [refcount |-> 1, intcount |-> 1, lru |-> [i \in 1..LRU_COUNT |-> NoSearch],
     default_search |-> NoSearch, search |-> [s \in Ids |-> FreeSearch]]

locale_root_addref(R) == [R EXCEPT !.refcount = @ + 1]
internal_unref(R) == [R EXCEPT !.intcount = @ - 1]
locale_search_addref(R, s) == [R EXCEPT !.search[s].refcount = @ + 1]

locale_search_unref(R, s) ==
    IF s = NoSearch THEN R
    ELSE IF R.search[s].refcount = 1 THEN internal_unref([R EXCEPT !.search[s] = FreeSearch])
    ELSE [R EXCEPT !.search[s].refcount = @ - 1]

locale_root_unref(R) ==
    LET S == [R EXCEPT !.refcount = @ - 1]
    IN  IF S.refcount # 0 THEN S ELSE internal_unref(FoldLeft(locale_search_unref, S, S.lru))

MutMatches(R, s, definition) ==
    s # NoSearch /\ IsPrefix(definition, R.search[s].definition)

(* search_matches: the whole definition is the same.                       *)
search_matches(R, s, definition) == s # NoSearch /\ R.search[s].definition = definition

Free(R) == CHOOSE s \in Ids : R.search[s].refcount = 0 /\ \A t \in Ids : R.search[t].refcount = 0 => s <= t

MutEvicted(R) == R

(* The oldest search of the cache is dropped.                              *)
Evicted(R) == locale_search_unref(R, R.lru[LRU_COUNT])

(* locale_root_search: the search is then the first of the cache, its      *)
(* reference is to be released by the caller.                              *)
locale_root_search(R, r, definition) ==
    LET hits == {i \in 1..LRU_COUNT : search_matches(R, R.lru[i], definition)}
        i == IF hits = {} THEN LRU_COUNT ELSE CHOOSE h \in hits : \A k \in hits : h <= k
        s == IF hits = {} THEN Free(R) ELSE R.lru[i]
        created == [R EXCEPT !.intcount = @ + 1,
                             !.search[s] = [definition |-> definition,
                                            list |-> SearchList[r][definition], refcount |-> 1]]
        S == IF hits = {} THEN Evicted(created) ELSE R
    IN  locale_search_addref([S EXCEPT !.lru = <<s>> \o RemoveAt(R.lru, i)], s)

locale_root_set_default_search(R, s) ==
    locale_search_unref([locale_search_addref(R, s) EXCEPT !.default_search = s], R.default_search)

(* The folders of a search, or of the default search.                      *)
ListOf(R, s) == IF s = NoSearch THEN <<>> ELSE R.search[s].list
=============================================================================
