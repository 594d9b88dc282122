-------------------------- MODULE SharedMemoryPage --------------------------
(***************************************************************************)
(* shared_mem::SharedMemoryPage and the page cache of Table (shared_memory  *)
(* .tpp, .hpp, .cpp).  Slot s of a table keeps its records in the POSIX     *)
(* shared memory object named "<table>:s".  file[s] is the object that this *)
(* name denotes now: shm_unlink() and a later shm_open() give the name      *)
(* another object, while a process that mapped the old one keeps it in its  *)
(* opened_pages_list.                                                       *)
(*                                                                          *)
(* The constructor holds a CriticalSection named after the page from its    *)
(* first system call to its last, so it is one step here; the fault "lock"  *)
(* is a CANT_LOCK of that section, whose owner may have died inside.        *)
(*                                                                          *)
(* SharedMemoryPage::unlink() does not take that section.  Whoever unlinks  *)
(* a page while the constructor runs comes after it, in effect, when the    *)
(* constructor has opened the object: it then maps one that has no name.    *)
(* If the name vanishes between its two calls of shm_open(), the second     *)
(* creates an object of size 0, which the constructor unlinks again         *)
(* (ERR_WRONG_SHMEM_PAGE_SIZE): it throws and leaves no name, which is what *)
(* the fault "lock" does after the unlinking.                               *)
(***************************************************************************)
EXTENDS CriticalSection

CONSTANTS
    Pages,                   \* shared memory objects
    table_max_pages,         \* slots of a table
    max_elements_in_page,
    MemoryLevels,            \* subset of {"fine", "low", "out"}: free memory
                             \* may be above 15%, up to 15%, up to 10%
    Faults,                  \* subset of {"lock", "ftruncate", "mmap"}: may fail
    NoPage, EmptyFile, NoRecord

ASSUME PageAssumption ==
    /\ table_max_pages \in Nat \ {0}
    /\ max_elements_in_page \in Nat \ {0}
    /\ MemoryLevels \subseteq {"fine", "low", "out"}
    /\ Faults \subseteq {"lock", "ftruncate", "mmap"}
    /\ NoPage \notin Pages
    /\ EmptyFile \notin Pages /\ EmptyFile # NoPage
    /\ NoRecord \notin Procs

VARIABLES
    file,               \* file[s]: a page, EmptyFile (of size 0) or NoPage
    unlinked,           \* the pages whose header says unlinked
    elements,           \* elements[o][c]: who wrote cell c of page o
    opened_pages_list   \* opened_pages_list[p][s]: the page p mapped for s

pageVars == <<file, unlinked, elements, opened_pages_list>>

Slots == 0..(table_max_pages - 1)
Cells == 0..(max_elements_in_page - 1)

Blank      == [c \in Cells |-> NoRecord]
NoMappings == [s \in Slots |-> NoPage]

PagesTypeOK ==
    /\ file \in [Slots -> Pages \union {EmptyFile, NoPage}]
    /\ unlinked \subseteq Pages
    /\ elements \in [Pages -> [Cells -> Procs \union {NoRecord}]]
    /\ opened_pages_list \in [Procs -> [Slots -> Pages \union {NoPage}]]

PagesInit ==
    /\ file = [s \in Slots |-> NoPage]
    /\ unlinked = {}
    /\ elements = [o \in Pages |-> Blank]
    /\ opened_pages_list = [p \in Procs |-> NoMappings]

(* statvfs("/dev/shm/") is read anew at every call, so a call may return    *)
(* either answer that some memory level allows.                             *)
isMemLow       == MemoryLevels \intersect {"low", "out"} # {}
isMemNotLow    == "fine" \in MemoryLevels
isMemAvailable == MemoryLevels \intersect {"fine", "low"} # {}
isMemOut       == "out" \in MemoryLevels

-----------------------------------------------------------------------------
(* Objects that have a name in f or a mapping in m. *)
Alive(f, m) == {o \in Pages : \/ \E s \in Slots : f[s] = o
                              \/ \E p \in Procs, s \in Slots : m[p][s] = o}

(* The system destroys an object that has neither a name nor a mapping. *)
Become(f, m, marks) ==
    /\ file' = f
    /\ opened_pages_list' = m
    /\ unlinked' = marks \intersect Alive(f, m)
    /\ elements' = [o \in Pages |-> IF o \in Alive(f, m) THEN elements[o] ELSE Blank]

(* localGetPageByName() *)
Cached(p, s) == opened_pages_list[p][s] # NoPage

MapPage(p, s, o) ==
    opened_pages_list' = [opened_pages_list EXCEPT ![p] = [@ EXCEPT ![s] = o]]

(* shm_open(O_EXCL), ftruncate() and memset() of a new page for slot s. *)
CreateAs(s, o) ==
    /\ file[s] = NoPage
    /\ o \in Pages \ Alive(file, opened_pages_list)
    /\ o = CHOOSE x \in Pages \ Alive(file, opened_pages_list) : TRUE
    /\ file' = [file EXCEPT ![s] = o]
    /\ unlinked' = unlinked \ {o}
    /\ elements' = [elements EXCEPT ![o] = Blank]

(* getPageByName() finds the page in the list, or opens or creates it. *)
PageReady(p, s) ==
    \/ /\ Cached(p, s)
       /\ UNCHANGED pageVars
    \/ /\ ~Cached(p, s)
       /\ file[s] \in Pages
       /\ MapPage(p, s, file[s])
       /\ UNCHANGED <<file, unlinked, elements>>
    \/ /\ ~Cached(p, s)
       /\ isMemAvailable
       /\ \E o \in Pages : CreateAs(s, o) /\ MapPage(p, s, o)

(* The constructor throws.  ERR_LOW_SHMEM leaves an empty file behind,      *)
(* which is the ERR_WRONG_SHMEM_PAGE_SIZE of the next opener, who unlinks   *)
(* it.  CANT_LOCK changes nothing and ERR_CREATE_SHMEM_PAGE unlinks what it *)
(* created.  ERR_SHMEM_MAP_FAILED leaves the file, new or old.              *)
PageFails(p, s) ==
    /\ ~Cached(p, s)
    /\ UNCHANGED opened_pages_list
    /\ \/ /\ file[s] = NoPage /\ isMemOut
          /\ file' = [file EXCEPT ![s] = EmptyFile]
          /\ UNCHANGED <<unlinked, elements>>
       \/ /\ file[s] = EmptyFile
          /\ file' = [file EXCEPT ![s] = NoPage]
          /\ UNCHANGED <<unlinked, elements>>
       \/ /\ "lock" \in Faults \/ (file[s] = NoPage /\ isMemAvailable /\ "ftruncate" \in Faults)
          /\ UNCHANGED <<file, unlinked, elements>>
       \/ /\ "mmap" \in Faults
          /\ \/ file[s] \in Pages /\ UNCHANGED <<file, unlinked, elements>>
             \/ isMemAvailable /\ \E o \in Pages : CreateAs(s, o)

(* A page is given up: the header of the page p has mapped for s is marked  *)
(* and the name is unlinked.                                                *)
MarkAndUnlink(p, s) ==
    Become([file EXCEPT ![s] = NoPage], opened_pages_list,
           unlinked \union {opened_pages_list[p][s]})

(* The end of release_expired_memory_pages(): p drops its marked mappings. *)
DropMarked(p) ==
    Become(file,
           [opened_pages_list EXCEPT ![p] =
              [s \in Slots |-> IF @[s] \in unlinked THEN NoPage ELSE @[s]]],
           unlinked)

(* release_open_pages(), and the end of a process. *)
DropAll(p) ==
    Become(file, [opened_pages_list EXCEPT ![p] = NoMappings], unlinked)

(* memcpy() of n elements to cell i of the page p has mapped for s. *)
WriteElements(p, s, i, n) ==
    /\ elements' = [elements EXCEPT ![opened_pages_list[p][s]] =
                      [c \in Cells |-> IF i <= c /\ c < i + n THEN p ELSE @[c]]]
    /\ UNCHANGED <<file, unlinked, opened_pages_list>>
=============================================================================
