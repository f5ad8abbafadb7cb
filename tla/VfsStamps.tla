----------------------------- MODULE VfsStamps -----------------------------
(***************************************************************************)
(* The stamps of idle file systems (lib/vfs/gc.c), with the archives of    *)
(* extfs (src/vfs/extfs/extfs.c, on lib/vfs/direntry.c) as file systems,   *)
(* the panels and the current directory as their users.                    *)
(*                                                                         *)
(* An archive found inside another one works on a local copy, which keeps  *)
(* a file of the outer archive open until the inner one is freed and the   *)
(* copy is written back.  Freeing is thus done by opening and closing      *)
(* files, which removes and adds stamps while vfs_expire walks the list:   *)
(* there, the entries already freed are NULL, and a NULL entry compares    *)
(* equal to every file system.                                             *)
(***************************************************************************)
EXTENDS Integers, Sequences, FiniteSets

CONSTANTS
  Archives,   \* paths of archives
  Local,      \* the local file system, which has no stamps
  Within,     \* the archive that holds an archive, or Local
  Panels,
  NoListing,  \* of a panel: it shows information, a tree or a file instead
  MaxOpen     \* bound: files users hold open

ASSUME LocalAssumption == Local \notin Archives /\ NoListing \notin Archives \cup {Local}
ASSUME WithinAssumption == Within \in [Archives -> Archives \cup {Local}]
(* Archives nest once.                                                      *)
ASSUME NestAssumption ==
  \A f \in Archives : Within[f] = Local \/ Within[Within[f]] = Local
(* Three NULL entries ahead of a stamp can double it, see the README: that  *)
(* takes five archives.                                                     *)
ASSUME FewAssumption == IsFiniteSet(Archives) /\ Cardinality(Archives) <= 4

VARIABLES
  vfs,        \* the superblocks and the stamps, a record
  cwd,        \* where the current directory is
  panel,      \* where each panel is, or NoListing
  used,       \* files users hold open in each archive
  expiring,   \* "no", "timer", "now", or "quit" before and while all is freed
  seen        \* history: archives that are to be freed some time, see Remember

vs_vars == <<vfs, cwd, panel, used, expiring, seen>>

Places == Archives \cup {Local}
Nulled == [fs |-> Local, old |-> FALSE]      \* stamp->data == NULL

-----------------------------------------------------------------------------
(* gc.c.  Each operator takes the record s and returns its new value.       *)

(* The first link g_slist_find_custom takes for f: one of f, or a NULL one. *)
vfs_stamp_compare(s, f) ==
  LET equal == {i \in 1..Len(s.stamps) : s.stamps[i].fs \in {f, Local}}
  IN IF equal = {} THEN 0 ELSE CHOOSE i \in equal : \A j \in equal : i <= j

Found(s, f) ==
  LET i == vfs_stamp_compare(s, f) IN i # 0 /\ s.stamps[i].fs = f

Fresh(s, f) == [s EXCEPT !.stamps[vfs_stamp_compare(s, f)].old = FALSE]

vfs_stamp(s, f) == IF Found(s, f) THEN Fresh(s, f) ELSE s

vfs_addstamp(s, f) ==
  IF f = Local THEN s
  ELSE IF Found(s, f) THEN Fresh(s, f)
  ELSE [s EXCEPT !.stamps = Append(@, [fs |-> f, old |-> FALSE])]

(* The link goes, and those behind it move up: so does the one vfs_expire   *)
(* is at.                                                                   *)
vfs_rmstamp(s, f) ==
  LET i == vfs_stamp_compare(s, f)
  IN IF i = 0 THEN s
     ELSE [s EXCEPT !.stamps = SubSeq(@, 1, i - 1) \o SubSeq(@, i + 1, Len(@)),
                    !.at = IF i < @ THEN @ - 1 ELSE @]

(* The superblock a path belongs to now, without opening one; asking puts   *)
(* its timeout off.                                                         *)
vfs_getid(s, f) == IF f \in s.live THEN f ELSE Local
Asked(s, f) == IF f \in s.live THEN vfs_stamp(s, f) ELSE s

nothingisopen(s, f) == s.fd[f] <= 0

(* The event vfs_timestamp: does a panel show f?  A panel that is not a     *)
(* listing says yes to everything.                                          *)
check_panel_timestamp(s, f, at) ==
  \E p \in Panels : at[p] = NoListing \/ (at[p] = f /\ f \in s.live)

(* `here' and `at' are the current directory and the panels.                *)
vfs_stamp_create(s, f, here, at) ==
  LET dropped == vfs_rmstamp(Asked(s, here), vfs_getid(s, here))
  IN IF f = Local \/ vfs_getid(s, here) = f
        \/ check_panel_timestamp(s, f, at) \/ ~nothingisopen(s, f)
     THEN dropped
     ELSE vfs_addstamp(dropped, f)
-----------------------------------------------------------------------------
(* extfs.c.                                                                 *)

Live(s, f) == IF f \in s.live THEN vfs_stamp(s, f)
              ELSE [s EXCEPT !.live = @ \cup {f}]

(* "we had no open files and now we have one"                               *)
Opened(s, f) == [vfs_rmstamp(Live(s, f), f) EXCEPT !.fd[f] = @ + 1]

extfs_close(s, f, here, at) ==
  LET closed == [s EXCEPT !.fd[f] = @ - 1]
  IN IF closed.fd[f] = 0 THEN vfs_stamp_create(closed, f, here, at) ELSE closed

\* Mutant: the local copy does not count as an open file.
extfs_getlocalcopy_uncounted(s, f, here, at) ==
  extfs_close(Opened(s, f), f, here, at)

(* Open the file, count it once more, close it.                             *)
extfs_getlocalcopy(s, f, here, at) ==
  extfs_close([Opened(s, f) EXCEPT !.fd[f] = @ + 1], f, here, at)

(* An archive that is not open is opened, after the one that holds it.      *)
extfs_get_path(s, f, here, at) ==
  IF f \in s.live \/ Within[f] = Local THEN Live(s, f)
  ELSE LET o == Within[f]
       IN [extfs_getlocalcopy(Live(s, o), o, here, at)
             EXCEPT !.live = @ \cup {f}, !.copy = @ \cup {f}]

(* The file is opened again; if it is still the copy, the count goes down   *)
(* and the copy is written back.                                            *)
extfs_ungetlocalcopy(s, c, here, at) ==
  LET o == Within[c]
      opened == Opened(s, o)
  IN [extfs_close([opened EXCEPT !.fd[o] = IF c \in s.copy THEN @ - 1 ELSE @],
                  o, here, at)
        EXCEPT !.copy = @ \ {c}]

(* The files of f are unlinked, copies made of them among them.             *)
vfs_s_free_super(s, f, here, at) ==
  LET gone == [s EXCEPT !.live = @ \ {f}, !.fd[f] = 0,
                        !.copy = {c \in @ : Within[c] # f}]
  IN IF Within[f] = Local THEN gone ELSE extfs_ungetlocalcopy(gone, f, here, at)

-----------------------------------------------------------------------------
(* The users.                                                               *)

VsInit ==
  /\ vfs = [live |-> {}, fd |-> [f \in Archives |-> 0], copy |-> {},
            stamps |-> << >>, at |-> 0]
  /\ cwd = Local /\ panel = [p \in Panels |-> Local]
  /\ used = [f \in Archives |-> 0] /\ expiring = "no" /\ seen = {}

InUse(f) == f \in vfs.live /\ (vfs.fd[f] > 0 \/ cwd = f \/ \E p \in Panels : panel[p] = f)
Listings == \A p \in Panels : panel[p] # NoListing
Stamped(f) == \E i \in 1..Len(vfs.stamps) : vfs.stamps[i].fs = f

(* Every archive in use is to be freed once it is no more, as long as it is *)
(* open.  But one left while a panel is not a listing is forgotten by the   *)
(* code, unless it has a stamp: no stamp is made then.                      *)
Remember ==
  seen' = {f \in seen \cap vfs.live' : Listings \/ Stamped(f)'} \cup {f \in Archives : InUse(f)'}

(* mc_chdir from a place to another: reach it, then release the old one.    *)
Reached(s, from, to, at) == IF to = Local THEN s ELSE extfs_get_path(s, to, from, at)
mc_chdir(s, from, to, at) ==
  LET r == Reached(s, from, to, at)
  IN  vfs_stamp_create(Asked(r, from), vfs_getid(r, from), to, at)

\* Mutant: the old place is released while the panel is still there.
panel_do_cd_int_early(p, f) ==
  /\ expiring = "no" /\ panel[p] # NoListing
  /\ LET s == mc_chdir(vfs, cwd, f, panel)
     IN vfs' = vfs_stamp_create(Asked(s, panel[p]), vfs_getid(s, panel[p]), f, panel)
  /\ panel' = [panel EXCEPT ![p] = f] /\ cwd' = f
  /\ UNCHANGED <<used, expiring>> /\ Remember

panel_do_cd_int(p, f) ==
  /\ expiring = "no" /\ panel[p] # NoListing
  /\ LET s == mc_chdir(vfs, cwd, f, panel)
         at == [panel EXCEPT ![p] = f]
     IN /\ vfs' = vfs_stamp_create(Asked(s, panel[p]), vfs_getid(s, panel[p]), f, at)
        /\ panel' = at
  /\ cwd' = f
  /\ UNCHANGED <<used, expiring>> /\ Remember

(* Another panel gets the focus.                                            *)
panel_focus(p) ==
  /\ expiring = "no" /\ panel[p] \notin {cwd, NoListing}
  /\ vfs' = mc_chdir(vfs, cwd, panel[p], panel) /\ cwd' = panel[p]
  /\ UNCHANGED <<panel, used, expiring>> /\ Remember

(* A panel makes way for another view, unless it is the last listing: its   *)
(* archive gets a stamp, in use or not.  The current directory stays.       *)
panel_destroy(p) ==
  /\ expiring = "no" /\ Listings
  /\ LET s == Asked(vfs, panel[p])
     IN vfs' = vfs_addstamp(s, vfs_getid(vfs, panel[p]))
  /\ panel' = [panel EXCEPT ![p] = NoListing]
  /\ UNCHANGED <<cwd, used, expiring>> /\ Remember

(* And becomes a listing again, of the directory f saved for it: mc goes    *)
(* there and back.  create_panel sets the type afterwards.                  *)
panel_sized_with_dir_new(p, f) ==
  /\ expiring = "no" /\ panel[p] = NoListing
  /\ vfs' = mc_chdir(mc_chdir(vfs, cwd, f, panel), f, cwd, panel)
  /\ panel' = [panel EXCEPT ![p] = f]
  /\ UNCHANGED <<cwd, used, expiring>> /\ Remember

(* The user can reach the list of active directories, and quit, only while  *)
(* no operation has a file open.                                            *)
NoFileOpen == \A f \in Archives : used[f] = 0

Users == LET count[F \in SUBSET Archives] ==
               IF F = {} THEN 0
               ELSE LET f == CHOOSE x \in F : TRUE IN used[f] + count[F \ {f}]
         IN count[Archives]

(* A file is looked at, opened for longer, closed.                          *)
stat(f) ==
  /\ expiring = "no"
  /\ vfs' = extfs_get_path(vfs, f, cwd, panel)
  /\ UNCHANGED <<cwd, panel, used, expiring>> /\ Remember

extfs_open(f) ==
  /\ expiring = "no" /\ Users < MaxOpen
  /\ vfs' = Opened(extfs_get_path(vfs, f, cwd, panel), f)
  /\ used' = [used EXCEPT ![f] = @ + 1]
  /\ UNCHANGED <<cwd, panel, expiring>> /\ Remember

close_file(f) ==
  /\ expiring = "no" /\ used[f] > 0
  /\ vfs' = extfs_close(vfs, f, cwd, panel)
  /\ used' = [used EXCEPT ![f] = @ - 1]
  /\ UNCHANGED <<cwd, panel, expiring>> /\ Remember

-----------------------------------------------------------------------------
(* Time, and vfs_expire.                                                    *)

vfs_timeout ==
  /\ expiring = "no" /\ \E i \in 1..Len(vfs.stamps) : ~vfs.stamps[i].old
  /\ vfs' = [vfs EXCEPT !.stamps = [i \in DOMAIN @ |-> [@[i] EXCEPT !.old = TRUE]]]
  /\ UNCHANGED <<cwd, panel, used, expiring>> /\ Remember

Reversed(s) == [s EXCEPT !.stamps = [i \in DOMAIN @ |-> @[Len(@) + 1 - i]]]

vfs_timeout_handler ==
  /\ expiring = "no" /\ \E i \in 1..Len(vfs.stamps) : vfs.stamps[i].old
  /\ vfs' = [vfs EXCEPT !.at = 1] /\ expiring' = "timer"
  /\ UNCHANGED <<cwd, panel, used>> /\ Remember

(* "Free VFSs now" of the list of active VFS directories.                   *)
free_now ==
  /\ expiring = "no" /\ vfs.stamps # << >> /\ NoFileOpen
  /\ vfs' = [Reversed(vfs) EXCEPT !.at = 1] /\ expiring' = "now"
  /\ UNCHANGED <<cwd, panel, used>> /\ Remember

(* done_mc, which stamps the current directory, and vfs_gc_done.            *)
mc_quits ==
  /\ expiring = "no" /\ NoFileOpen
  /\ LET s == vfs_addstamp(Asked(vfs, cwd), vfs_getid(vfs, cwd))
     IN vfs' = [Reversed(s) EXCEPT !.at = 1]
  /\ expiring' = "quit"
  /\ UNCHANGED <<cwd, panel, used>> /\ Remember

(* One turn of the loop: the stamp is kept, renewed, or its file system is  *)
(* freed and the entry becomes NULL.                                        *)
vfs_expire_one ==
  /\ expiring # "no" /\ vfs.at \in 1..Len(vfs.stamps)
  /\ LET stamp == vfs.stamps[vfs.at]
         freed == vfs_s_free_super(vfs, stamp.fs, cwd, panel)
     IN vfs' = IF expiring = "timer" /\ ~stamp.old THEN [vfs EXCEPT !.at = @ + 1]
               ELSE IF expiring = "timer" /\ ~nothingisopen(vfs, stamp.fs)
               THEN [vfs EXCEPT !.stamps[vfs.at].old = FALSE, !.at = @ + 1]
               ELSE [freed EXCEPT !.stamps[freed.at] = Nulled, !.at = @ + 1]
  /\ UNCHANGED <<cwd, panel, used, expiring>> /\ Remember

(* g_slist_remove_all of NULL.                                              *)
g_slist_remove_all(q) ==
  LET kept[k \in 0..Len(q)] ==
        IF k = 0 THEN << >>
        ELSE IF q[k].fs = Local THEN kept[k - 1]
        ELSE Append(kept[k - 1], q[k])
  IN kept[Len(q)]

vfs_expire_end ==
  /\ expiring \in {"timer", "now"} /\ vfs.at > Len(vfs.stamps)
  /\ vfs' = [vfs EXCEPT !.stamps = g_slist_remove_all(@), !.at = 0]
  /\ expiring' = "no"
  /\ UNCHANGED <<cwd, panel, used>> /\ Remember

VsNext ==
  \/ \E p \in Panels : \/ \E f \in Places : panel_do_cd_int(p, f) \/ panel_sized_with_dir_new(p, f)
                       \/ panel_focus(p) \/ panel_destroy(p)
  \/ \E f \in Archives : stat(f) \/ extfs_open(f) \/ close_file(f)
  \/ vfs_timeout \/ vfs_timeout_handler \/ free_now \/ mc_quits
  \/ vfs_expire_one \/ vfs_expire_end

VsSpec == VsInit /\ [][VsNext]_vs_vars

-----------------------------------------------------------------------------
(* While no list is walked, each stamp names an archive that is open, and   *)
(* no two the same: the next walk, which passes the address of each to      *)
(* nothingisopen and free, would use one freed before.  And an archive that *)
(* was in use and is no more has a stamp, so that the timer comes to free   *)
(* it: it was not forgotten when the last user left, nor taken away for     *)
(* another one, unless a panel was not a listing then (check_panel_         *)
(* timestamp): such an archive is freed with the others when mc ends, or    *)
(* after the next visit.                                                    *)
StampsAreLive ==
  /\ \A i \in 1..Len(vfs.stamps) : vfs.stamps[i].fs \in vfs.live
  /\ \A i, j \in 1..Len(vfs.stamps) : i # j => vfs.stamps[i].fs # vfs.stamps[j].fs
IdleIsStamped ==
  \A f \in seen : InUse(f) \/ Stamped(f)
StampsExact == expiring = "no" => StampsAreLive /\ IdleIsStamped

(* The copy an inner archive works on exists as long as the archive: the    *)
(* timer does not free the outer one, whatever was opened, closed, stamped  *)
(* and released between.  What is freed on the user's word is another       *)
(* matter, see NestedFirst.                                                 *)
CopyKept ==
  [][(expiring \in {"no", "timer"}) =>
       (\A c \in vfs.copy : c \in vfs.live' => c \in vfs.copy')]_vs_vars

(* "reverse list to free nested VFSes at first" (gc.c:259): no archive is   *)
(* freed before one that works on a copy kept in it.                        *)
NestedFirst ==
  [][\A c \in vfs.copy : c \in vfs.live' => c \in vfs.copy']_vs_vars
=============================================================================
