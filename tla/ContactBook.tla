----------------------------- MODULE ContactBook -----------------------------
(***************************************************************************)
(* What the front ends do with a contact list: resolve a name or key       *)
(* prefix to one contact, and filter and sort the list.  The radio returns *)
(* its contacts in no particular order.  A contact is a record of ranks:   *)
(* name and key order like the strings they stand for (0 is empty), last   *)
(* is the time of its last advert (0: never), enc its out_path_len byte,   *)
(* dist its distance or NoDistance.                                        *)
(***************************************************************************)
EXTENDS Naturals, Sequences, FiniteSets

CONSTANTS
  Book,       \* the contacts there may be
  MaxList,    \* bound: length of a contact list
  Now,        \* the clock of the machine that sorts
  NoDistance  \* rank of a contact without coordinates

OutPathUnknown == 255
Unresolved == [found |-> FALSE]
Found(c) == [found |-> TRUE, contact |-> c]

Lists == UNION {{s \in [1..n -> Book] : \A i, j \in 1..n : s[i] = s[j] => i = j} :
                 n \in 0..MaxList}
ToSet(s) == {s[i] : i \in DOMAIN s}

-----------------------------------------------------------------------------
(* A query is what it matches: exactly (name or whole key), or in part.    *)
FirstOf(list, S) ==
  LET hits == {i \in DOMAIN list : list[i] \in S}
  IN Found(list[CHOOSE i \in hits : \A j \in hits : i <= j])

matchContact(list, exact, partial) ==
  LET hit == ToSet(list) \intersect exact
      near == ToSet(list) \intersect partial
  IN IF hit # {} THEN FirstOf(list, exact)
     ELSE IF Cardinality(near) = 1 THEN FirstOf(list, partial)
     ELSE Unresolved

\* The node a hop's hash stands for in a trace, when contacts `hits` have keys
\* that begin with it.  The index has no contact without a key or a name.
resolveNode(list, hits) ==
  LET indexed == {c \in ToSet(list) : c.key # 0 /\ c.name # 0}
      names == {c.name : c \in indexed \intersect hits}
  IN [name |-> IF Cardinality(names) = 1 THEN CHOOSE n \in names : TRUE ELSE 0,
      ambiguous |-> Cardinality(names) > 1]

\* The contact whose name and position a neighbour with that prefix is given.
contactForKeyPrefix(list, hits) ==
  IF ToSet(list) \intersect hits = {} THEN Unresolved ELSE FirstOf(list, hits)

-----------------------------------------------------------------------------
\* Faulty variant: equal names are not told apart by key.
contactNameLess_NoKey(a, b) == a.name < b.name

contactNameLess(a, b) == a.name < b.name \/ (a.name = b.name /\ a.key < b.key)

contactAgeRank(t) == IF t = 0 THEN 2 ELSE IF t > Now THEN 1 ELSE 0
contactAdvRank(c) == IF c.enc = OutPathUnknown THEN 0 ELSE c.enc \div 64 + 1
contactRouteRank(c) == IF c.enc = OutPathUnknown THEN 1000 ELSE c.enc % 64
contactRouteKind(c) == CASE c.enc = OutPathUnknown -> "flood"
                         [] c.enc # OutPathUnknown /\ c.enc % 64 = 0 -> "direct"
                         [] OTHER -> "static"

\* By the column x, then by name.
By(x, y, a, b) == IF x # y THEN x < y ELSE contactNameLess(a, b)

Less(sortBy, a, b) ==
  CASE sortBy = "type"  -> By(a.type, b.type, a, b)
    [] sortBy = "age"   -> LET ra == contactAgeRank(a.last)
                               rb == contactAgeRank(b.last)
                           IN IF ra # rb THEN ra < rb
                              ELSE IF ra < 2 THEN By(a.last, b.last, a, b)
                              ELSE contactNameLess(a, b)
    [] sortBy = "adv"   -> By(contactAdvRank(a), contactAdvRank(b), a, b)
    [] sortBy = "route" -> By(contactRouteRank(a), contactRouteRank(b), a, b)
    [] sortBy = "key"   -> IF a.key = 0 /\ b.key = 0 THEN contactNameLess(a, b)
                           ELSE IF a.key = 0 THEN FALSE
                           ELSE IF b.key = 0 THEN TRUE
                           ELSE By(a.key, b.key, a, b)
    [] sortBy = "distance" ->
         IF a.dist = NoDistance /\ b.dist = NoDistance THEN contactNameLess(a, b)
         ELSE IF a.dist = NoDistance THEN FALSE
         ELSE IF b.dist = NoDistance THEN TRUE
         ELSE By(a.dist, b.dist, a, b)
    [] OTHER -> contactNameLess(a, b)

\* sort.SliceStable: an element comes after the ones it is not less than and
\* that stood before it.
sortContacts(list, sortBy) ==
  LET before(i, j) == \/ Less(sortBy, list[i], list[j])
                      \/ (i < j /\ ~Less(sortBy, list[j], list[i]))
      rank(j) == Cardinality({i \in DOMAIN list : i # j /\ before(i, j)}) + 1
  IN [k \in DOMAIN list |-> list[CHOOSE j \in DOMAIN list : rank(j) = k]]

\* A query of `mc contacts`: any of the filters, and a column to sort by.
Queries ==
  [type : 0..2, route : {"", "direct", "flood", "static"}, within : {0, 5},
   origin : BOOLEAN, sortBy : {"name", "type", "age", "adv", "route", "key", "distance"}]

Wanted(q, c) == /\ q.type = 0 \/ c.type = q.type
                /\ q.within = 0 \/ (c.dist # NoDistance /\ c.dist <= q.within)
                /\ q.route = "" \/ contactRouteKind(c) = q.route

\* The filters' loops, one contact after the other.
wantedContacts(list, q) ==
  LET upTo[n \in 0..Len(list)] ==
        IF n = 0 THEN <<>>
        ELSE IF Wanted(q, list[n]) THEN Append(upTo[n - 1], list[n]) ELSE upTo[n - 1]
  IN upTo[Len(list)]

filterContacts(list, q) ==
  IF ~q.origin /\ (q.within # 0 \/ q.sortBy = "distance")
  THEN [ok |-> FALSE, list |-> <<>>]
  ELSE [ok |-> TRUE, list |-> sortContacts(wantedContacts(list, q), q.sortBy)]

-----------------------------------------------------------------------------
VARIABLES
  list,   \* the contact list as the radio or the store returned it
  shown,  \* the last listing, [ok, list]
  query,  \* its query
  match,  \* the last name resolved
  asked   \* what it matched exactly and in part

vars == <<list, shown, query, match, asked>>

Nothing == [ok |-> FALSE, list |-> <<>>]
AllByName == [type |-> 0, route |-> "", within |-> 0, origin |-> TRUE, sortBy |-> "name"]
NoQuestion == [exact |-> {}, partial |-> {}]

Init == /\ list = <<>>
        /\ shown = Nothing
        /\ query = AllByName
        /\ match = Unresolved
        /\ asked = NoQuestion

Load == /\ list = <<>>
        /\ list' \in Lists \ {<<>>}
        /\ UNCHANGED <<shown, query, match, asked>>

Show == /\ list # <<>> /\ query = AllByName /\ shown = Nothing
        /\ asked = NoQuestion
        /\ query' \in Queries
        /\ shown' = filterContacts(list, query')
        /\ UNCHANGED <<list, match, asked>>

Resolve == /\ list # <<>> /\ query = AllByName /\ shown = Nothing
           /\ asked = NoQuestion
           /\ \E exact, partial \in SUBSET ToSet(list) :
                /\ exact \subseteq partial
                /\ asked' = [exact |-> exact, partial |-> partial]
                /\ match' = matchContact(list, exact, partial)
           /\ UNCHANGED <<list, shown, query>>

Next == Load \/ Show \/ Resolve

Spec == Init /\ [][Next]_vars

-----------------------------------------------------------------------------
(* Whatever order the radio returns its contacts in, a listing is the same *)
(* list: the comparison sortContacts passes to the sort is a total order   *)
(* (contacts of equal rank are told apart by name and key), contacts with  *)
(* no key, advert or position included, and it is the same on a machine    *)
(* whose clock says that every advert lies in the past.                    *)
ListingOrderFree ==
  shown.ok =>
    LET kept == {c \in ToSet(list) : Wanted(query, c)}
        Earlier(a, b) == IF query.sortBy = "age" /\ a.last # b.last
                         THEN b.last = 0 \/ (a.last # 0 /\ a.last < b.last)
                         ELSE Less(query.sortBy, a, b)
    IN /\ ToSet(shown.list) = kept
       /\ Len(shown.list) = Cardinality(kept)
       /\ \A i, j \in DOMAIN shown.list :
            i < j => Earlier(shown.list[i], shown.list[j])

(* A name resolves to the same contact whatever order the list is in,      *)
(* unless two contacts carry that very name: then the first one is taken.  *)
MatchOrderFree ==
  asked # NoQuestion /\ Cardinality(asked.exact) <= 1 =>
    \A other \in Lists :
      ToSet(other) = ToSet(list) =>
        matchContact(other, asked.exact, asked.partial) = match

(* A trace leaves a hop open exactly if two contacts of that key prefix     *)
(* have different names.  The neighbour listing takes the first of them:    *)
(* it gives a name only where the trace gives that name or leaves the hop   *)
(* open, and misses one only if that first contact has none.                *)
NamesAgree ==
  \A hits \in SUBSET {c \in ToSet(list) : c.key # 0} :
    LET node == resolveNode(list, hits)
        neighbour == contactForKeyPrefix(list, hits)
    IN /\ node.ambiguous <=> \E c, d \in hits : /\ c.name # 0 /\ d.name # 0
                                               /\ c.name # d.name
       /\ neighbour.found /\ neighbour.contact.name # 0 =>
            node.ambiguous \/ node.name = neighbour.contact.name
       /\ node.name # 0 => /\ neighbour.found
                           /\ neighbour.contact.name \in {0, node.name}

(* Listing and resolving do not depend on the order in which the radio      *)
(* returns its contacts; naming a node does only as far as NamesAgree says. *)
OrderFree == ListingOrderFree /\ MatchOrderFree /\ NamesAgree
=============================================================================
