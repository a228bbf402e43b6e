------------------------------ MODULE KittyStore ------------------------------
(***************************************************************************)
(* The images a session keeps for the Kitty graphics protocol              *)
(* (kterm_impl.h): uploads in chunks, replacement, further frames, deletion *)
(* and the account of the memory they take.  A step is one command,        *)
(* ESC _ G ... ESC \.  Sizes are counted in blocks of 4096 bytes, the first *)
(* capacity of a frame; placement, visibility and pixels are left out, so   *)
(* "t" stands for "T" as well.                                             *)
(***************************************************************************)
EXTENDS Integers, Sequences, SequencesExt

CONSTANTS
    Ids,            \* the image ids the application uses, without 0
    LIMIT,          \* KTERM_KITTY_MEMORY_LIMIT
    MaxBlocks,      \* bound on the payload of one command
    MaxSent,        \* bound on the payload of one upload
    MaxFrames,      \* bound on the frames of an image
    Oom             \* allocations may fail

VARIABLES
    kitty,      \* session->kitty: images, active_upload as an index (0 is NULL),
                \* continuing, usage (current_memory_usage)
    upload      \* ghost: the upload the application is in: id, sent (blocks), open

image == <<kitty, upload>>

Blocks == 0 .. MaxBlocks
Empty == [images |-> << >>, active |-> 0, continuing |-> FALSE, usage |-> 0]
NoUpload == [id |-> 0, sent |-> 0, open |-> FALSE]

Capacity(frames) == FoldLeft(LAMBDA sum, f : sum + f.capacity, 0, frames)
Find(k, id) == SelectInSeq(k.images, LAMBDA img : img.id = id)

\* What freeing the frames leaves of the account.
Without(usage, frames) == IF usage >= Capacity(frames) THEN usage - Capacity(frames) ELSE 0

-------------------------------------------------------------------------------
(* KTerm_PrepareKittyUpload *)

NewImage(id) == [id |-> id, frames |-> << >>, complete |-> FALSE]

\* Wrong variant: the frames an image had are freed and still accounted for.
PlaceKeeping(k, c) ==
    LET found == Find(k, c.id)
        at == IF found = 0 THEN Len(k.images) + 1 ELSE found
        img == NewImage(c.id)
    IN  <<at, [k EXCEPT !.images = IF found = 0 THEN Append(@, img) ELSE [@ EXCEPT ![at] = img]]>>

\* "t" takes a new image or replace the one with this id.
Place(k, c) ==
    LET found == Find(k, c.id)
        at == IF found = 0 THEN Len(k.images) + 1 ELSE found
        img == NewImage(c.id)
    IN  IF found = 0 THEN <<at, [k EXCEPT !.images = Append(@, img)]>>
        ELSE <<at, [k EXCEPT !.images[at] = img,
                             !.usage = Without(@, k.images[at].frames)]>>

\* A frame of its own for the upload; over the limit it stays without data, and
\* without memory it goes again.
AddFrame(k, at, ok) ==
    LET frame(n) == [k EXCEPT !.images[at].frames = Append(@, [capacity |-> n, size |-> 0])]
    IN  CASE k.usage + 1 > LIMIT -> [frame(0) EXCEPT !.active = 0]
          [] k.usage + 1 <= LIMIT /\ ok -> [frame(1) EXCEPT !.usage = @ + 1, !.active = at]
          [] k.usage + 1 <= LIMIT /\ ~ok -> [k EXCEPT !.active = 0]

\* A chunk that continues an upload starts nothing.
Prepare(k, c, ok) ==
    CASE k.active # 0 /\ k.continuing -> k
      [] ~(k.active # 0 /\ k.continuing) /\ (c.big \/ c.action \notin {"t", "f"}) -> k
      [] OTHER ->
            IF c.action = "f"
            THEN IF Find(k, c.id) = 0 THEN k ELSE AddFrame(k, Find(k, c.id), ok)
            ELSE LET p == Place(k, c) IN AddFrame(p[2], p[1], ok)

\* The payload part of KTerm_ProcessKittyChar, a block at a time: a frame that is
\* full doubles; when that fails the upload is given up.
Grow(k, ok) ==
    LET at == k.active
        last == Len(k.images[at].frames)
        frame == k.images[at].frames[last]
        grown == [k EXCEPT !.images[at].frames[last].capacity = 2 * @,
                           !.usage = @ + frame.capacity]
    IN  CASE frame.size < frame.capacity -> k
          [] frame.size >= frame.capacity /\ ok /\ k.usage + frame.capacity <= LIMIT -> grown
          [] OTHER -> [k EXCEPT !.active = 0]
StoreBlock(k, ok) ==
    IF k.active = 0 \/ k.images[k.active].frames = << >> THEN k
    ELSE LET g == Grow(k, ok)
             last == Len(g.images[g.active].frames)
         IN  IF g.active = 0 THEN g
             ELSE [g EXCEPT !.images[g.active].frames[last].size = @ + 1]
Payload(k, blocks, ok) ==
    LET step(x, b) == StoreBlock(x, ok) IN FoldLeft(step, k, [b \in 1 .. blocks |-> b])

\* KTerm_ExecuteKittyCommand: "d" deletes all images or the one with this id; the
\* images behind it move up, active_upload does not.
Delete(k, c) ==
    LET at == Find(k, c.id)
    IN  CASE c.del = "a" /\ k.images # << >> -> [Empty EXCEPT !.continuing = k.continuing]
          [] c.del = "i" /\ at # 0 -> [k EXCEPT !.images = RemoveAt(@, at),
                                                !.usage = Without(@, k.images[at].frames)]
          [] OTHER -> k
Execute(k, c) ==
    LET done == IF k.active = 0 THEN k ELSE [k EXCEPT !.images[k.active].complete = ~c.more]
        kept == [done EXCEPT !.continuing = c.more]
    IN  IF c.action = "d" THEN Delete(kept, c) ELSE kept

\* ESC _ G (KTerm_ProcessAPCChar)
BeginCommand(k) == IF k.continuing THEN k ELSE [k EXCEPT !.active = 0]

-------------------------------------------------------------------------------
\* The commands an application sends.  A further chunk says nothing but whether
\* another one follows; a command without payload prepares nothing.
Chunk == [action : {"t"}, id : {0}, more : BOOLEAN, blocks : Blocks, del : {""}, big : {FALSE}]
Fresh ==
    [action : {"t", "f"}, id : Ids, more : BOOLEAN, blocks : Blocks, del : {""}, big : BOOLEAN]
    \cup [action : {"d"}, id : Ids, more : {FALSE}, blocks : {0}, del : {"a", "i"}, big : {FALSE}]

KittyInit == kitty = Empty /\ upload = NoUpload

Command(c, ok) ==
    LET begun == BeginCommand(kitty)
        k == IF c.blocks = 0 THEN begun ELSE Prepare(begun, c, ok)
        frames == IF Find(kitty, c.id) = 0 THEN << >> ELSE kitty.images[Find(kitty, c.id)].frames
    IN  /\ c.action = "f" => Len(frames) < MaxFrames
        /\ kitty' = Execute(Payload(k, c.blocks, ok), c)
        /\ upload.sent + c.blocks <= MaxSent
        /\ upload' = IF ~c.more THEN NoUpload
                     ELSE [id |-> IF upload.open THEN upload.id ELSE c.id, open |-> TRUE,
                           sent |-> upload.sent + c.blocks]

Upload == ~upload.open /\ \E c \in Fresh, ok \in {TRUE, ~Oom} : Command(c, ok)
Continue == upload.open /\ \E c \in Chunk, ok \in {TRUE, ~Oom} : Command(c, ok)

\* KTerm_InitKitty, also in the middle of an upload: RIS and RESET;KITTY.
Reset ==
    /\ kitty' = Empty
    /\ UNCHANGED upload

KittyNext == Upload \/ Continue \/ Reset

KittySpec == KittyInit /\ [][KittyNext]_image

-------------------------------------------------------------------------------
\* The account is what the frames take, within the limit, and an upload in progress
\* has a frame that holds all that was sent of it: however uploads are cut into
\* chunks, replaced, deleted, refused or out of memory half way.
KittyAccounted ==
    /\ kitty.usage <= LIMIT
    /\ kitty.usage = FoldLeft(LAMBDA sum, img : sum + Capacity(img.frames), 0, kitty.images)
    /\ kitty.active # 0 /\ kitty.continuing =>
          LET img == kitty.images[kitty.active]
          IN  /\ Last(img.frames).capacity > 0
              /\ img.id # 0 => img.id = upload.id /\ Last(img.frames).size = upload.sent
                               /\ ~img.complete

===============================================================================
