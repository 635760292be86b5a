---------------------------- MODULE VertexStore ----------------------------
(***************************************************************************)
(* The vertices of one fragment: external ids, the id maps, the string     *)
(* buffer, and the properties in pages that are copied when a new epoch    *)
(* writes them (PropertyColPaged).  Pages, maps and strings lie in shared  *)
(* memory, where readers of published epochs look at them while the writer *)
(* goes on.                                                                *)
(*                                                                         *)
(* A column family is a group of properties stored together; a page holds  *)
(* PageSize rows of one family of one label.  Logs for vertices of other   *)
(* fragments return at once and are not in the model.                      *)
(***************************************************************************)
EXTENDS Integers, Sequences, FiniteSets, FiniteSetsExt

CONSTANTS
  Threads,      \* threads that apply logs: one unless USE_MULTI_THREADS
  Labels,       \* vertex labels
  StringIds,    \* labels whose external id is a string
  NumFamilies,  \* cols_.size()
  PropFam,      \* property -> family (vertex_prop_column_family_map_)
  StringProps,  \* the properties of type STRING, in order
  Rows,         \* inputs: the property values of a log; 0 is an empty value
  PageSize,     \* num_row_per_page
  Capacity,     \* pages the vprop buffer has room for
  StrCapacity,  \* strings the string buffer has room for
  MaxVertices,  \* bound: vertices per label
  MaxEpoch,     \* bound: epochs
  MaxOps        \* bound: logs applied

Families == 1 .. NumFamilies
Props == DOMAIN PropFam
PropsOf(f) == {p \in Props : PropFam[p] = f}

ASSUME VertexStoreAssumption ==
  /\ Threads # {} /\ "free" \notin Threads /\ StringIds \subseteq Labels
  /\ {NumFamilies, PageSize, Capacity, StrCapacity} \subseteq Nat \ {0}
  /\ {MaxVertices, MaxEpoch, MaxOps} \subseteq Nat
  /\ PropFam \in [Props -> Families]
  /\ StringProps \in Seq(Props)
  /\ Rows \subseteq [Props -> Nat]

VARIABLES
  epoch,      \* epoch of the logs being applied
  hist,       \* per label and vertex, the logs about it, as a reader expects them
  ext,        \* external_id_stores_
  strs,       \* the strings put; a string's key stands for its place
  maps,       \* every vertex map ever made: its entries, whether it was aborted
  vmap,       \* vertex_maps_: the current map of every label
  pubs,       \* per published epoch, what its blob schema names
  size,       \* vprop_buffer_manager_: where the next page goes
  mem,        \* the pages in the vprop buffer
  header,     \* FlexColHeader.page_ptr, in shared memory: what readers follow
  newest,     \* FlexCol.pages
  oldest,     \* FlexCol.old_pages
  mutex,      \* inner_vertex_label_mutexes_
  th          \* what every thread is doing

vars == <<epoch, hist, ext, strs, maps, vmap, pubs,
          size, mem, header, newest, oldest, mutex, th>>

pages == <<size, mem, header, newest, oldest>>
ids   == <<ext, strs, maps, vmap>>

Empty == 0          \* a value of size 0 in a log, or NULL in a property
Junk  == -1         \* bytes nobody wrote
Fresh == -1         \* version of a page that was just allocated
NoKey == -1         \* the key of a string that found no room
Free  == "free"     \* no thread holds the mutex

PageNums == 0 .. ((MaxVertices - 1) \div PageSize)
Columns  == Labels \X Families \X PageNums

Idle == [pc |-> "idle"]

(* A page that nobody wrote: any bytes, no null bit that means anything. *)
Blank(f) == [i \in 0 .. (PageSize - 1) |->
               [p \in PropsOf(f) |-> [null |-> FALSE, val |-> Junk]]]

Init ==
  /\ epoch = 0
  /\ hist = [l \in Labels |-> << >>]
  /\ ext = [l \in Labels |-> << >>]
  /\ strs = << >>
  /\ maps = [l \in Labels |-> <<[oids |-> {}, aborted |-> FALSE]>>]
  /\ vmap = [l \in Labels |-> 1]
  /\ pubs = << >>
  /\ size = 1                   \* the headers come first in the buffer
  /\ mem = << >>
  /\ header = [c \in Columns |-> 0]
  /\ newest = [c \in Columns |-> 0]
  /\ oldest = [c \in Columns |-> 0]
  /\ mutex = [l \in Labels |-> Free]
  /\ th = [t \in Threads |-> Idle]

-----------------------------------------------------------------------------
(* Strings *)

(* put_cstring of some strings, one after the other.  size_ counts those    *)
(* that found no room too, so that no later one finds any.                  *)
PutStrings(s) == strs' = strs \o s

(* The buffer has room for the string that goes in as number i of several.  *)
Fits(i) == Len(strs) + i <= StrCapacity

(* Its key.  Without the assertion, an overflow returns -1, which the       *)
(* callers store like any other key.                                        *)
KeyOf(i) == IF Fits(i) THEN Len(strs) + i ELSE NoKey

(* What its readers find: of -1 they get bytes from before the buffer.      *)
Kept(i, x) == IF Fits(i) THEN x ELSE Junk

(* The string of a key. *)
StringAt(key) == IF key \in DOMAIN strs THEN strs[key] ELSE Junk

-----------------------------------------------------------------------------
(* The logs *)

Ops == MapThenSumSet(LAMBDA l :
         MapThenSumSet(LAMBDA v : Len(hist[l][v]), DOMAIN hist[l]), Labels)

Alone == \A t \in Threads : th[t].pc = "idle"

NoUpdate == \A t \in Threads : th[t].pc # "idle" => th[t].op = "insert"

(* A value as insert() and update() store it; of an empty one nothing but   *)
(* the null bit is written.                                                 *)
Cell(x, stored) == [null |-> x = Empty, val |-> IF x = Empty THEN Junk ELSE stored]

Index(p) == {i \in DOMAIN StringProps : StringProps[i] = p}

(* Where the strings of a row have that of p. *)
Place(p) == CHOOSE i \in Index(p) : TRUE

Work(t, op, l, v, cells, fams) ==
  [th EXCEPT ![t] = [pc |-> "find", op |-> op, label |-> l, vertex |-> v,
                     cells |-> cells, todo |-> fams, page |-> 0]]

Gone == [u \in Threads |-> [th[u] EXCEPT !.pc = "dead"]]

(* Mutant: the map of the last published epoch is aborted too. *)
AbortReplaced(l, oid) ==
  \/ /\ maps' = [maps EXCEPT ![l][vmap[l]].oids = @ \cup {oid}]
     /\ UNCHANGED vmap
  \/ /\ maps' = [maps EXCEPT ![l] =
           Append([@ EXCEPT ![vmap[l]].aborted = TRUE],
                  [oids |-> maps[l][vmap[l]].oids \cup {oid}, aborted |-> FALSE])]
     /\ vmap' = [vmap EXCEPT ![l] = Len(maps[l]) + 1]

(* history_vertex_maps_: the map the last published epoch names. *)
HistoryMap(l) == IF pubs = << >> THEN 0 ELSE pubs[Len(pubs)].vmap[l]

(* set_vertex_map: emplace adds the id in place, or it makes a larger map,  *)
(* and then the one before is aborted unless a published epoch names it.    *)
SetVertexMap(l, oid) ==
  \/ /\ maps' = [maps EXCEPT ![l][vmap[l]].oids = @ \cup {oid}]
     /\ UNCHANGED vmap
  \/ /\ maps' = [maps EXCEPT ![l] =
           Append([@ EXCEPT ![vmap[l]].aborted = (vmap[l] # HistoryMap(l))],
                  [oids |-> maps[l][vmap[l]].oids \cup {oid}, aborted |-> FALSE])]
     /\ vmap' = [vmap EXCEPT ![l] = Len(maps[l]) + 1]

(* insert_inner_vertex up to property->insert: the external id is the       *)
(* vertex's number; the strings of the row are put even if they are empty.  *)
(* An external id that finds no room is stored as NoKey; for a string of    *)
(* the row the key goes through text, where std::stoll throws, and nobody   *)
(* catches that.                                                            *)
Insert(t, l, row) ==
  LET v    == Len(hist[l]) + 1
      n    == IF l \in StringIds THEN 1 ELSE 0
      Stored(p) == IF Index(p) = {} THEN row[p]
                   ELSE KeyOf(n + Place(p))
  IN
  /\ th[t].pc = "idle" /\ NoUpdate
  /\ v <= MaxVertices /\ Ops < MaxOps
  /\ hist' = [hist EXCEPT ![l] =
       Append(@, <<[epoch |-> epoch, row |-> row,
                    id |-> IF l \in StringIds THEN Kept(1, v) ELSE v]>>)]
  /\ IF l \in StringIds
     THEN /\ ext' = [ext EXCEPT ![l] = Append(@, KeyOf(1))]
          /\ UNCHANGED <<maps, vmap>>
     ELSE /\ ext' = [ext EXCEPT ![l] = Append(@, v)]
          /\ SetVertexMap(l, v)
  /\ PutStrings([i \in 1 .. n |-> v] \o
                [i \in DOMAIN StringProps |-> row[StringProps[i]]])
  /\ th' = IF StringProps # << >> /\ ~Fits(n + Len(StringProps)) THEN Gone
           ELSE Work(t, "insert", l, v - 1,
                     [p \in Props |-> Cell(row[p], Stored(p))], Families)
  /\ UNCHANGED <<epoch, pubs, pages, mutex>>

Column(l, f, v) == <<l, f, v \div PageSize>>

(* The row of a vertex in the newest page. *)
OldCells(l, f, v) == mem[newest[Column(l, f, v)]].rows[v % PageSize]

OldValue(l, v, p) ==
  LET c == OldCells(l, PropFam[p], v)[p]
  IN  CASE c.null -> Empty
        [] ~c.null /\ Index(p) # {} -> StringAt(c.val)
        [] OTHER -> c.val

(* The update has to compare a string with one that found no room. *)
Unreadable(l, v, row) ==
  \E p \in Props : Index(p) # {} /\ row[p] # Empty /\ OldValue(l, v, p) = Junk

Changed(l, v, row) == {p \in Props : row[p] # OldValue(l, v, p)}

(* update_inner_vertex: the row is compared with the newest page, family by *)
(* family; the families with a difference are written as a whole, the       *)
(* others left alone.  A string is put only if it differs from the old one, *)
(* in the order of the properties; one that finds no room is stored as      *)
(* NoKey, and that is what a reader sees of it.                             *)
Update(t, l, row, v) ==
  LET new == {p \in Changed(l, v, row) : row[p] # Empty /\ Index(p) # {}}
      rank(p) == Cardinality({q \in new : Place(q) <= Place(p)})
      Stored(p) ==
        CASE Index(p) = {} -> row[p]
          [] p \in new -> KeyOf(rank(p))
          [] OTHER -> OldCells(l, PropFam[p], v)[p].val
  IN
  /\ Alone
  /\ v < Len(hist[l]) /\ Ops < MaxOps
  /\ ~Unreadable(l, v, row)
  /\ hist' = [hist EXCEPT ![l][v + 1] =
       Append(@, [epoch |-> epoch, id |-> Empty,
                  row |-> [p \in Props |-> IF p \in new THEN Kept(rank(p), row[p])
                                           ELSE row[p]]])]
  /\ PutStrings([k \in 1 .. Cardinality(new) |-> row[CHOOSE p \in new : rank(p) = k]])
  /\ LET fams == {PropFam[p] : p \in Changed(l, v, row)}
         cells == [p \in Props |-> Cell(row[p], Stored(p))]
     IN  th' = IF fams = {} THEN th ELSE Work(t, "update", l, v, cells, fams)
  /\ UNCHANGED <<epoch, ext, maps, vmap, pubs, pages, mutex>>

(* get_string with the key -1 reads far outside the buffer.  What the       *)
(* update did before that, nobody can see.                                  *)
UpdateFaults(l, row, v) ==
  /\ Alone
  /\ v < Len(hist[l]) /\ Ops < MaxOps
  /\ Unreadable(l, v, row)
  /\ th' = Gone
  /\ UNCHANGED <<epoch, hist, ids, pubs, pages, mutex>>

-----------------------------------------------------------------------------
(* findWithInsertPage_ and the copy of a row, for the families to do        *)

Fam(t) == Min(th[t].todo)
Col(t) == Column(th[t].label, Fam(t), th[t].vertex)

Goto(t, pc) == th' = [th EXCEPT ![t].pc = pc]

Holds(t) == mutex[th[t].label] = t

Release(t) == mutex' = [mutex EXCEPT ![th[t].label] = Free]

(* The page of this epoch is there, or one has to be made.  An insert does  *)
(* this under the label's mutex; an update runs alone.  The lock of the     *)
(* page is taken inside and never contended.                                *)
Find(t) ==
  LET n == newest[Col(t)] IN
  /\ th[t].pc = "find"
  /\ mutex[th[t].label] = Free
  /\ IF oldest[Col(t)] # 0 /\ mem[n].ver = epoch
     THEN /\ th' = [th EXCEPT ![t].pc = "write", ![t].page = n]
          /\ UNCHANGED mutex
     ELSE /\ Goto(t, "region")
          /\ mutex' = [mutex EXCEPT ![th[t].label] = t]
  /\ UNCHANGED <<epoch, hist, ids, pubs, pages>>

(* get_region, up to the store of size_: no lock protects it. *)
GetRegion(t) ==
  /\ th[t].pc = "region"
  /\ size < Capacity
  /\ th' = [th EXCEPT ![t].pc = "page", ![t].page = size]
  /\ UNCHANGED <<epoch, hist, ids, pubs, pages, mutex>>

(* The buffer is full: the page is written through a null pointer, and the  *)
(* process is gone.                                                         *)
BufferFull(t) ==
  /\ th[t].pc = "region"
  /\ size >= Capacity
  /\ th' = Gone
  /\ UNCHANGED <<epoch, hist, ids, pubs, pages, mutex>>

PutPage(s, page) ==
  mem' = [x \in DOMAIN mem \cup {s} |-> IF x = s THEN page ELSE mem[x]]

(* Mutant: size_ is not stored. *)
KeepSize(s) == UNCHANGED size

(* The rest of get_region. *)
StoreSize(s) == size' = s + 1

(* getNewPage_: a first page has no version yet; a later one is a copy of   *)
(* the newest.  Readers see it through the header from here on, before the  *)
(* row is written.                                                          *)
NewPage(t) ==
  LET s == th[t].page
      c == Col(t)
  IN
  /\ th[t].pc = "page"
  /\ StoreSize(s)
  /\ header' = [header EXCEPT ![c] = s]
  /\ PutPage(s, [ver |-> IF oldest[c] = 0 THEN Fresh ELSE epoch,
                 prev |-> newest[c],
                 rows |-> IF oldest[c] = 0 THEN Blank(Fam(t))
                          ELSE mem[newest[c]].rows])
  /\ IF oldest[c] = 0
     THEN /\ oldest' = [oldest EXCEPT ![c] = s]
          /\ Goto(t, "stamp")
          /\ UNCHANGED <<newest, mutex>>
     ELSE /\ newest' = [newest EXCEPT ![c] = s]
          /\ Goto(t, "write")
          /\ Release(t)
          /\ UNCHANGED oldest
  /\ UNCHANGED <<epoch, hist, ids, pubs>>

(* "an initialized page": it gets its version and becomes the newest. *)
Stamp(t) ==
  /\ th[t].pc = "stamp"
  /\ mem' = [mem EXCEPT ![th[t].page].ver = epoch]
  /\ newest' = [newest EXCEPT ![Col(t)] = th[t].page]
  /\ Goto(t, "write")
  /\ Release(t)
  /\ UNCHANGED <<epoch, hist, ids, pubs, size, header, oldest>>

(* Mutant: the row goes to the oldest page. *)
OldestPage(t) == oldest[Col(t)]

PageToWrite(t) == th[t].page

(* The family's bytes and null bits. *)
Write(t) ==
  /\ th[t].pc = "write"
  /\ mem' = [mem EXCEPT ![PageToWrite(t)].rows[th[t].vertex % PageSize] =
               [p \in PropsOf(Fam(t)) |-> th[t].cells[p]]]
  /\ th' = [th EXCEPT ![t] =
              IF th[t].todo = {Fam(t)} THEN Idle
              ELSE [th[t] EXCEPT !.pc = "find", !.todo = th[t].todo \ {Fam(t)}]]
  /\ UNCHANGED <<epoch, hist, ids, pubs, size, header, newest, oldest, mutex>>

-----------------------------------------------------------------------------
(* A log of the next epoch: the threads have finished, and update_blob      *)
(* names the vertices and the map of the epoch that ends.                   *)
Publish ==
  /\ Alone /\ epoch < MaxEpoch
  /\ pubs' = Append(pubs, [max |-> [l \in Labels |-> Len(hist[l])],
                           vmap |-> vmap])
  /\ epoch' = epoch + 1
  /\ UNCHANGED <<hist, ids, pages, mutex, th>>

Step(t) ==
  \/ Find(t) \/ GetRegion(t) \/ BufferFull(t) \/ NewPage(t) \/ Stamp(t) \/ Write(t)

Next ==
  \/ Publish
  \/ \E t \in Threads :
       \/ Step(t)
       \/ \E l \in Labels, row \in Rows :
            \/ Insert(t, l, row)
            \/ \E v \in 0 .. (MaxVertices - 1) : Update(t, l, row, v)
  \/ \E l \in Labels, row \in Rows, v \in 0 .. (MaxVertices - 1) : UpdateFaults(l, row, v)

Spec == Init /\ [][Next]_vars

-----------------------------------------------------------------------------
(* A reader of epoch r *)

(* Mutant: a page of the reader's own epoch is not for it. *)
VisiblePageBefore(c, r) ==
  LET walk[s \in DOMAIN mem \cup {0}] ==
        IF s = 0 \/ mem[s].ver < r THEN s ELSE walk[mem[s].prev]
  IN  walk[header[c]]

(* The newest page up to epoch r; past the oldest one, the walk goes on     *)
(* with whatever lies at the start of the buffer (0).                       *)
VisiblePage(c, r) ==
  LET walk[s \in DOMAIN mem \cup {0}] ==
        IF s = 0 \/ mem[s].ver <= r THEN s ELSE walk[mem[s].prev]
  IN  walk[header[c]]

(* VertexPropValueIsValid, then GetData. *)
ReadProp(l, v, p, r) ==
  LET s == VisiblePage(Column(l, PropFam[p], v), r)
      c == mem[s].rows[v % PageSize][p]
  IN  CASE s = 0 -> Junk
        [] s # 0 /\ c.null -> Empty
        [] s # 0 /\ ~c.null /\ Index(p) # {} -> StringAt(c.val)
        [] OTHER -> c.val

(* GetExternalId *)
ReadExt(l, v) ==
  IF l \in StringIds THEN StringAt(ext[l][v + 1]) ELSE ext[l][v + 1]

-----------------------------------------------------------------------------
(* Types: pages hold the rows of their column and the epochs up to now; a   *)
(* page's predecessor lies before it in the buffer.                         *)
TypeOK ==
  /\ epoch \in 0 .. MaxEpoch /\ Len(pubs) = epoch
  /\ size \in 1 .. Capacity
  /\ DOMAIN mem \subseteq 1 .. (Capacity - 1)
  /\ \A s \in DOMAIN mem : mem[s].ver \in {Fresh} \cup 0 .. epoch /\ mem[s].prev \in 0 .. (s - 1)
  /\ \A c \in Columns : {header[c], newest[c], oldest[c]} \subseteq DOMAIN mem \cup {0}
  /\ \A l \in Labels : vmap[l] \in DOMAIN maps[l] /\ mutex[l] \in Threads \cup {Free}

Expected(l, v, p, r) ==
  LET logs == hist[l][v + 1]
      seen == {i \in DOMAIN logs : logs[i].epoch <= r}
  IN  logs[Max(seen)].row[p]

(* Every published epoch keeps showing, for every vertex it has, the values *)
(* of the last log of that epoch or an earlier one about the vertex, NULLs  *)
(* and strings included, while later epochs copy pages, are seen through    *)
(* the header before they are written, or leave a write half done           *)
(* (insert, update, getNewPage_, GetData).  A string that found no room in  *)
(* the string buffer is lost, and junk is expected in its place: of its     *)
(* vertex, property and log only, and nowhere before.                       *)
SnapshotProps ==
  \A r \in 0 .. (epoch - 1) : \A l \in Labels :
    \A v \in 0 .. (pubs[r + 1].max[l] - 1) :
      /\ ReadExt(l, v) = hist[l][v + 1][1].id
      /\ \A p \in Props : ReadProp(l, v, p, r) = Expected(l, v, p, r)

(* No published epoch shows junk.  False: a release build goes on where     *)
(* put_cstring asserts that the string buffer never overflows, and -1 is    *)
(* published as the key of the string.                                      *)
NoStringLost ==
  \A r \in 0 .. (epoch - 1) : \A l \in Labels :
    \A v \in 0 .. (pubs[r + 1].max[l] - 1) :
      ReadExt(l, v) # Junk /\ \A p \in Props : ReadProp(l, v, p, r) # Junk

(* A page of a published epoch is never written again: readers look at it   *)
(* without any lock.                                                        *)
PublishedPagesFrozen ==
  [][\A s \in DOMAIN mem :
       mem[s].ver \in 0 .. (epoch - 1) => mem'[s] = mem[s]]_vars

Chain(c) ==
  LET walk[s \in DOMAIN mem \cup {0}] == IF s = 0 THEN {} ELSE {s} \cup walk[mem[s].prev]
  IN  walk[header[c]]

(* Two columns never share a page, although all of them draw from one       *)
(* buffer (get_region); and along a column's pages versions only fall.      *)
OwnPages ==
  /\ \A c, d \in Columns : c # d => Chain(c) \cap Chain(d) = {}
  /\ \A c \in Columns : \A s \in Chain(c) :
       mem[s].prev # 0 => mem[mem[s].prev].ver < mem[s].ver

(* The vertex map a published epoch names is still there, and finds every   *)
(* vertex of that epoch (set_vertex_map aborts only maps nobody can know).  *)
PublishedMapServes ==
  \A r \in DOMAIN pubs : \A l \in Labels \ StringIds :
    LET m == maps[l][pubs[r].vmap[l]]
    IN  ~m.aborted /\ 1 .. pubs[r].max[l] \subseteq m.oids
=============================================================================
