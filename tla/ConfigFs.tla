------------------------------ MODULE ConfigFs ------------------------------
(***************************************************************************)
(* How uvc-gadget finds out what it is (lib/configfs.c): which function of *)
(* which gadget it serves, the video device of that function, and the      *)
(* table of formats, frames and intervals that the host sees in the        *)
(* function's descriptors.                                                 *)
(*                                                                         *)
(* A world is what the program finds when it starts:                       *)
(*   gadgets   the gadgets in the order of a glob, each with its UDC       *)
(*             ("none" when it is not bound) and its functions, in order   *)
(*   videos    the video nodes in the order of a glob                      *)
(*   function  the argument, [gadget, name]; "any" where it names none     *)
(* A function has a name, a kind and the formats of the header that its    *)
(* high-speed class links to, in the order in which they were linked; a    *)
(* format has a type, a GUID and its frames in the order in which they     *)
(* were made.  The kernel numbers formats and frames in those orders and   *)
(* keeps intervals sorted.  The name of a directory is its alphabetical    *)
(* rank.                                                                   *)
(***************************************************************************)
EXTENDS Naturals, Sequences, FiniteSets, SequencesExt

Ok(formats) == [ret |-> "ok", formats |-> formats]
Error == [ret |-> "error", formats |-> << >>]

-----------------------------------------------------------------------------
(* The table of a function *)

\* Directory entries with the index the kernel gave them.
Numbered(dirs) == [k \in 1 .. Len(dirs) |-> [index |-> k, dir |-> dirs[k]]]

\* Sorted by keys that differ: n - 1 entries come before the one in place n.
Sorted(table, key) ==
  LET before(k) == {j \in DOMAIN table : key[j] < key[k]} IN
  [n \in DOMAIN table |-> table[CHOOSE k \in DOMAIN table : Cardinality(before(k)) = n - 1]]

\* scandir() with alphasort.
ScanDir(dirs) == Sorted(Numbered(dirs), [k \in DOMAIN dirs |-> dirs[k].name])

\* Slip: the table keeps the order of the directory.
AsScanned(table) == table
\* The host names formats and frames by index, the program by place.
ByIndex(table) == Sorted(table, [k \in DOMAIN table |-> table[k].index])

ParseFrame(e) == [index |-> e.index, size |-> e.dir.size, intervals |-> e.dir.intervals]

\* A GUID that uvc_formats does not list leaves no pixel format.
Fcc(guid) == IF guid \in {"YUY2", "MJPG"} THEN guid ELSE "none"

ParseFormat(e) ==
  LET frames == ScanDir(e.dir.frames) IN
  [index |-> e.index,
   fcc |-> Fcc(IF e.dir.type = "mjpeg" THEN "MJPG" ELSE e.dir.guid),
   frames |-> ByIndex([k \in 1 .. Len(frames) |-> ParseFrame(frames[k])])]

\* format_filter accepts every link: it tests access() the wrong way round, and
\* for a path that is relative to another directory.  One format that cannot be
\* read is an error of the whole.
ParseHeader(formats) ==
  LET entries == ScanDir(formats)
      Readable(d) == d.type \in {"mjpeg", "uncompressed"} /\ d.frames # << >>
  IN IF entries = << >> \/ \E k \in 1 .. Len(entries) : ~Readable(entries[k].dir)
     THEN Error
     ELSE Ok(ByIndex([k \in 1 .. Len(entries) |-> ParseFormat(entries[k])]))

\* Another function than uvc has no control and no streaming directory.
ParseUvc(function) == IF function.kind = "uvc" THEN ParseHeader(function.formats) ELSE Error

\* The table for the g_webcam driver, taken to be what that driver declares.
Webcam ==
  LET frames == << [index |-> 1, size |-> "640x360", intervals |-> <<666666, 10000000, 50000000>>],
                   [index |-> 2, size |-> "1280x720", intervals |-> <<50000000>>] >>
  IN << [index |-> 1, fcc |-> "YUY2", frames |-> frames],
        [index |-> 2, fcc |-> "MJPG", frames |-> frames] >>

-----------------------------------------------------------------------------
(* The function and its video device *)

\* Slip: the first node of the controller will do.
FirstVideoDevice(videos, udc, name) == SelectInSeq(videos, LAMBDA v : udc \in {v.udc, "any"})

\* udc_find_video_device: the place of the node, or 0.
FindVideoDevice(videos, udc, name) ==
  SelectInSeq(videos, LAMBDA v : udc \in {v.udc, "any"} /\ name \in {v.function, "any"})

\* configfs_find_uvc_function: the first path that matches, gadget by gadget.
FindFunction(gadgets, arg) ==
  LET named(g) == SelectInSeq(g.functions, LAMBDA f : arg.name \in {f.name, "any"})
      gadget == SelectInSeq(gadgets, LAMBDA g : arg.gadget \in {g.name, "any"} /\ named(g) # 0)
  IN IF gadget = 0 THEN <<0, 0>> ELSE <<gadget, named(gadgets[gadget])>>

\* The table is read for a video device that was found.
At(video, parsed) == [video |-> video, ret |-> parsed.ret, formats |-> parsed.formats]

\* With no such function the argument is the name of a g_webcam's controller.
ParseLegacy(world) ==
  LET v == FindVideoDevice(world.videos, world.function.name, "any") IN
  At(v, IF v = 0 THEN Error ELSE Ok(Webcam))

ParseFound(world, gadget, function) ==
  LET v == FindVideoDevice(world.videos, gadget.udc, world.function.name) IN
  At(v, IF v = 0 THEN Error ELSE ParseUvc(function))

\* configfs_parse_uvc_function; "error" stands for NULL.
ParseUvcFunction(world) ==
  LET at == FindFunction(world.gadgets, world.function) IN
  IF at = <<0, 0>> THEN ParseLegacy(world)
  ELSE LET gadget == world.gadgets[at[1]] IN ParseFound(world, gadget, gadget.functions[at[2]])

-----------------------------------------------------------------------------
(* What the host sees *)

\* The function behind a video node: the one of that name in the gadget that is
\* bound to the node's controller; none for a g_webcam.
Behind(world, video) ==
  {f \in UNION {ToSet(g.functions) : g \in {h \in ToSet(world.gadgets) : h.udc = video.udc}} :
     f.name = video.function}

\* Its descriptors declare this interval for frame r of format f.
Declares(world, video, f, r, interval) ==
  LET Has(formats) ==
        /\ f \in 1 .. Len(formats)
        /\ r \in 1 .. Len(formats[f].frames)
        /\ interval \in ToSet(formats[f].frames[r].intervals)
  IN IF Behind(world, video) = {} THEN Has(Webcam)
     ELSE \E g \in Behind(world, video) : Has(g.formats)
=============================================================================
