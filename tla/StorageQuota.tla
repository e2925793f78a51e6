---------------------------- MODULE StorageQuota ----------------------------
(***************************************************************************)
(* The chunk files of one node (backend/storage/local_store.py) and the    *)
(* garbage collector that keeps them within the quota                      *)
(* (backend/advanced/garbage_collector.py).  The eviction runs in a thread *)
(* of its own, on a list of files made when it starts, while coroutines    *)
(* save and load chunks.                                                   *)
(*                                                                         *)
(* Sizes are in units of which the quota is a small number.  The directory *)
(* also holds files that are counted and that no eviction deletes: the     *)
(* database, resume records, the files that downloads are merged into.     *)
(* They come, grow and go at any time.  Measuring the directory is one     *)
(* step, and a chunk that is saved is saved whole in the end.              *)
(***************************************************************************)
EXTENDS Naturals, SequencesExt

CONSTANTS
    Chunk,
    Size,        \* bytes of each chunk
    MaxBytes,    \* the quota
    OtherSizes,  \* what the other files may take
    MaxSaves,    \* saves of chunks that are considered
    MaxDrift     \* bytes by which the other files grow during an eviction

ASSUME QuotaAssumption == MaxBytes \in Nat \ {0} /\ MaxSaves \in Nat /\ MaxDrift \in Nat
ASSUME SizeAssumption == Size \in [Chunk -> Nat \ {0}] /\ OtherSizes \subseteq Nat

VARIABLES
    files,    \* the chunk files, least recently accessed first
    other,    \* bytes of the other files
    evictor,  \* the eviction thread: its list, the bytes to free, those freed, the size it saw
    saves,    \* saves so far
    since     \* history since the check: what was saved, how the other files grew, and
              \* the bytes that went without being counted as freed

quota == <<files, other, evictor, saves, since>>

Evictor == [pc : {"off", "started", "evicting", "unlinking"}, list : Seq(Chunk),
            target : Nat, freed : Nat, seen : Nat]

Since == [saved : SUBSET Chunk, grown : Nat, gone : Nat]

Off == [pc |-> "off", list |-> <<>>, target |-> 0, freed |-> 0, seen |-> 0]

Nothing == [saved |-> {}, grown |-> 0, gone |-> 0]

Evicting == evictor.pc # "off"

QuotaTypeOK ==
    /\ files \in Seq(Chunk)
    /\ other \in OtherSizes
    /\ evictor \in Evictor
    /\ saves \in 0 .. MaxSaves /\ since \in Since

Stored == ToSet(files)

(* get_storage_size: every file counts. *)
Used == other + SumFunctionOnSet(Size, Stored)

QuotaInit ==
    /\ files = <<>> /\ other \in OtherSizes
    /\ evictor = Off
    /\ saves = 0 /\ since = Nothing

(* The other files: a resume record or a merged download is written, grows, *)
(* or is removed.                                                           *)
Over(m, n) == IF m > n THEN m - n ELSE 0

OthersChange ==
    /\ other' \in OtherSizes \ {other}
    /\ since' = IF Evicting
                THEN [since EXCEPT !.grown = @ + Over(other', other), !.gone = @ + Over(other, other')]
                ELSE since
    /\ since'.grown <= MaxDrift
    /\ UNCHANGED <<files, evictor, saves>>

(* save_chunk: a new file is the last accessed; one that is written over    *)
(* keeps its access time.                                                   *)
Saved(c) == IF c \in Stored THEN files ELSE Append(files, c)

Write(c) ==
    /\ files' = Saved(c)
    /\ since' = IF Evicting THEN [since EXCEPT !.saved = @ \cup {c}] ELSE since
    /\ UNCHANGED <<other, evictor>>

Save(c) == saves < MaxSaves /\ saves' = saves + 1 /\ Write(c)

(* load_chunk of a chunk that is there; whether reading renews the access   *)
(* time is up to the file system.                                           *)
Load(c) ==
    /\ c \in Stored
    /\ files' \in {files, Append(RemoveFirst(files, c), c)}
    /\ UNCHANGED <<other, evictor, saves, since>>

(* storage_monitor_loop: down to nine tenths of the quota, in whole bytes.  *)
(* The first form of the target would go down to the quota only, the first  *)
(* form of the check does not compare.                                      *)
TargetOfQuota == Used - MaxBytes

Target == (10 * Used - 9 * MaxBytes) \div 10

CheckAlways ==
    /\ evictor.pc = "off"
    /\ evictor' = [Off EXCEPT !.pc = "started", !.target = Target]
    /\ UNCHANGED <<files, other, saves, since>>

CheckQuota ==
    /\ evictor.pc = "off" /\ Used > MaxBytes
    /\ evictor' = [Off EXCEPT !.pc = "started", !.target = Target]
    /\ UNCHANGED <<files, other, saves, since>>

(* evict_oldest_chunks, in its thread: the files there are by then, oldest  *)
(* access first.                                                            *)
ListChunks ==
    /\ evictor.pc = "started"
    /\ evictor' = [evictor EXCEPT !.pc = "evicting", !.list = files]
    /\ UNCHANGED <<files, other, saves, since>>

(* The first form would delete one file after the target is reached. *)
EnoughAndOne == evictor.freed > evictor.target

Enough == evictor.freed >= evictor.target

(* The file may still be being written when its size is read: writing      *)
(* begins by truncating it, in another thread.  A chunk saved since the    *)
(* check is taken to be such a one.                                        *)
SizesSeen(c) == IF c \in since.saved THEN 0 .. Size[c] ELSE {Size[c]}

StatNext ==
    /\ evictor.pc = "evicting" /\ ~Enough /\ evictor.list # <<>>
    /\ \E n \in SizesSeen(Head(evictor.list)) :
          evictor' = [evictor EXCEPT !.pc = "unlinking", !.seen = n]
    /\ UNCHANGED <<files, other, saves, since>>

(* Nobody else deletes a chunk: what is listed is there. *)
UnlinkNext ==
    /\ evictor.pc = "unlinking"
    /\ LET c == Head(evictor.list)
       IN  /\ files' = RemoveFirst(files, c)
           /\ evictor' = [evictor EXCEPT !.pc = "evicting", !.list = Tail(@),
                                         !.freed = @ + evictor.seen, !.seen = 0]
           /\ since' = [since EXCEPT !.gone = @ + (Size[c] - evictor.seen)]
    /\ UNCHANGED <<other, saves>>

EvictEnd ==
    /\ evictor.pc = "evicting" /\ (Enough \/ evictor.list = <<>>)
    /\ evictor' = Off /\ since' = Nothing
    /\ UNCHANGED <<files, other, saves>>

Collect == CheckQuota \/ ListChunks \/ StatNext \/ UnlinkNext \/ EvictEnd

-----------------------------------------------------------------------------
(* No file is deleted that need not be: while a file goes, more than nine   *)
(* tenths of the quota are in use or were so but for the bytes that went    *)
(* since the check without being counted as freed, be it that other files   *)
(* were removed or that a chunk was seen half written.                      *)
EvictsNoMore ==
    [][\A c \in Stored : c \notin ToSet(files') => 10 * (Used + since.gone) > 9 * MaxBytes]_quota

(* An eviction during which no chunk was saved ends below nine tenths of    *)
(* the quota, up to a byte and to what the other files grew by since the    *)
(* check, or with every chunk gone.                                         *)
QuotaRestored ==
    [][evictor.pc = "evicting" /\ evictor'.pc = "off" /\ since.saved = {}
           => 10 * Used < 9 * MaxBytes + 10 + 10 * since.grown \/ files = <<>>]_quota

-----------------------------------------------------------------------------
(* What the two properties above rest on.                                   *)

(* Each file is there once. *)
FilesOnce == IsInjective(files)

(* What is in use, what was freed and what went uncounted make up for the   *)
(* target and nine tenths of the quota at least.                            *)
FreedIsGone ==
    Evicting =>
        10 * (Used + evictor.freed + since.gone) >= 10 * evictor.target + 9 * MaxBytes

(* When nothing was saved, what is in use and what was freed exceed both by *)
(* less than a byte and the growth of the other files.                      *)
FreedIsAll ==
    Evicting /\ since.saved = {} =>
        10 * (Used + evictor.freed)
            < 10 * evictor.target + 9 * MaxBytes + 10 + 10 * since.grown

(* The list of the eviction names chunks that are stored, once each, and    *)
(* all of them when nothing was saved.                                      *)
ListIsStored ==
    evictor.pc \in {"evicting", "unlinking"} =>
        /\ IsInjective(evictor.list) /\ ToSet(evictor.list) \subseteq Stored
        /\ since.saved = {} => Stored \subseteq ToSet(evictor.list)

(* A file about to go is needed and was not seen larger than it is.         *)
SeenFits ==
    evictor.pc = "unlinking" =>
        /\ evictor.list # <<>> /\ ~Enough
        /\ evictor.seen <= Size[Head(evictor.list)]

QuotaInv == FilesOnce /\ FreedIsGone /\ FreedIsAll /\ ListIsStored /\ SeenFits
=============================================================================
