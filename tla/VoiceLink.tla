------------------------------- MODULE VoiceLink -------------------------------
(***************************************************************************)
(* Voice from a microphone to a speaker elsewhere (kt_voice.h): the audio   *)
(* thread of one terminal fills the capture ring, its frame loop sends      *)
(* packets of it, the frame loop of the other fills the playback ring and   *)
(* its audio thread empties it.  The threads share nothing but head and     *)
(* tail; what does not fit is dropped whole.  Level, mute and the header    *)
(* of a packet are left out.                                                *)
(***************************************************************************)
EXTENDS Integers, Sequences, SequencesExt, FiniteSets

CONSTANTS
    SIZE,           \* VOICE_BUFFER_SIZE
    CHUNK,          \* samples in a packet
    Frames,         \* samples an audio callback is about
    MaxSamples,     \* bound on the samples recorded
    MaxWire         \* bound on the packets under way

Rings == {"capture", "playback"}

VARIABLES
    rings,      \* per ring: data, head, tail
    producer,   \* per ring: the call that fills it: at, bytes (the samples), head
    consumer,   \* per ring: the call that empties it: at, n, head, tail, got
    speaking,   \* per ring: KTermVoiceContext.enabled of the terminal that has it
    wire,       \* packets between the two
    recorded,   \* ghost: samples recorded so far; they are numbered
    lost,       \* ghost: samples that were dropped somewhere
    heard       \* the sample the speaker was given last

voice == <<rings, producer, consumer, speaking, wire, recorded, lost, heard>>

Idle == [at |-> "idle", samples |-> << >>, head |-> 0]
NotReading == [at |-> "idle", n |-> 0, head |-> 0, tail |-> 0, got |-> << >>]

Available(head, tail) == IF head >= tail THEN head - tail ELSE SIZE - (tail - head)
Free(head, tail) == IF head >= tail THEN SIZE - (head - tail) - 1 ELSE (tail - head) - 1
Chunk1(n, from) == IF n <= SIZE - from THEN n ELSE SIZE - from
ASet(samples) == ToSet(samples)

\* What a ring holds, and a call has taken but not handed on.
Inside(r) ==
    {rings[r].data[(rings[r].tail + k) % SIZE] :
        k \in 0 .. Available(rings[r].head, rings[r].tail) - 1}

-------------------------------------------------------------------------------
VoiceInit ==
    /\ rings = [r \in Rings |-> [data |-> [k \in 0 .. SIZE - 1 |-> 0], head |-> 0, tail |-> 0]]
    /\ producer = [r \in Rings |-> Idle]
    /\ consumer = [r \in Rings |-> NotReading]
    /\ speaking = [r \in Rings |-> TRUE]
    /\ wire = << >>
    /\ recorded = 0
    /\ lost = {}
    /\ heard = 0

\* Wrong variant: one slot more.
BeginFull(r, samples) ==
    IF Len(samples) > Free(rings[r].head, rings[r].tail) + 1
    THEN UNCHANGED producer /\ lost' = lost \cup ASet(samples)
    ELSE /\ producer' = [producer EXCEPT ![r] =
                [at |-> "copy1", samples |-> samples, head |-> rings[r].head]]
         /\ UNCHANGED lost

\* A call that fills ring r reads tail; samples that do not fit are dropped.
Begin(r, samples) ==
    IF Len(samples) > Free(rings[r].head, rings[r].tail)
    THEN UNCHANGED producer /\ lost' = lost \cup ASet(samples)
    ELSE /\ producer' = [producer EXCEPT ![r] =
                [at |-> "copy1", samples |-> samples, head |-> rings[r].head]]
         /\ UNCHANGED lost

\* The audio thread: KTerm_Voice_CaptureCallback
CaptureCallback ==
    /\ producer["capture"].at = "idle"
    /\ \E n \in Frames :
          /\ recorded + n <= MaxSamples
          /\ recorded' = recorded + n
          /\ IF speaking["capture"] THEN Begin("capture", [k \in 1 .. n |-> recorded + k])
             ELSE UNCHANGED producer /\ lost' = lost \cup (recorded + 1) .. (recorded + n)
    /\ UNCHANGED <<rings, consumer, speaking, wire, heard>>

\* The frame loop: KTerm_Voice_ProcessPlayback
ProcessPlayback ==
    /\ producer["playback"].at = "idle" /\ wire # << >>
    /\ wire' = Tail(wire)
    /\ IF speaking["playback"] THEN Begin("playback", Head(wire))
       ELSE UNCHANGED producer /\ lost' = lost \cup ASet(Head(wire))
    /\ UNCHANGED <<rings, consumer, speaking, recorded, heard>>

\* The copy up to the end of the ring, the copy of the rest, the store of head.
Copy1(r) ==
    LET p == producer[r]
        n == Chunk1(Len(p.samples), p.head)
    IN  /\ p.at = "copy1"
        /\ rings' = [rings EXCEPT ![r].data = [k \in 0 .. SIZE - 1 |->
              IF k \in p.head .. p.head + n - 1 THEN p.samples[k - p.head + 1] ELSE @[k]]]
        /\ producer' = [producer EXCEPT ![r].at = IF n < Len(p.samples) THEN "copy2" ELSE "store"]
        /\ UNCHANGED <<consumer, speaking, wire, recorded, lost, heard>>
Copy2(r) ==
    LET p == producer[r]
        n == Chunk1(Len(p.samples), p.head)
    IN  /\ p.at = "copy2"
        /\ rings' = [rings EXCEPT ![r].data = [k \in 0 .. SIZE - 1 |->
              IF k < Len(p.samples) - n THEN p.samples[n + k + 1] ELSE @[k]]]
        /\ producer' = [producer EXCEPT ![r].at = "store"]
        /\ UNCHANGED <<consumer, speaking, wire, recorded, lost, heard>>
Store(r) ==
    /\ producer[r].at = "store"
    /\ rings' = [rings EXCEPT ![r].head = (producer[r].head + Len(producer[r].samples)) % SIZE]
    /\ producer' = [producer EXCEPT ![r] = Idle]
    /\ UNCHANGED <<consumer, speaking, wire, recorded, lost, heard>>

\* A call that empties ring r reads head: the speaker wants n samples or gets silence,
\* the frame loop sends packets as long as there is a whole one.
Look(r, n) ==
    /\ consumer[r].at = "idle" /\ speaking[r]
    /\ Available(rings[r].head, rings[r].tail) >= n
    /\ consumer' = [consumer EXCEPT ![r] = [at |-> "copy1", n |-> n, got |-> << >>,
                                            head |-> rings[r].head, tail |-> rings[r].tail]]
    /\ UNCHANGED <<rings, producer, speaking, wire, recorded, lost, heard>>
PlaybackCallback == \E n \in Frames : Look("playback", n)
ProcessCapture == Look("capture", CHUNK)

Read1(r) ==
    LET c == consumer[r]
        n == Chunk1(c.n, c.tail)
    IN  /\ c.at = "copy1"
        /\ consumer' = [consumer EXCEPT ![r].at = IF n < c.n THEN "copy2" ELSE "store",
                            ![r].got = [k \in 1 .. n |-> rings[r].data[c.tail + k - 1]]]
        /\ UNCHANGED <<rings, producer, speaking, wire, recorded, lost, heard>>
Read2(r) ==
    LET c == consumer[r]
    IN  /\ c.at = "copy2"
        /\ consumer' = [consumer EXCEPT ![r].at = "store",
              ![r].got = @ \o [k \in 1 .. c.n - Len(@) |-> rings[r].data[k - 1]]]
        /\ UNCHANGED <<rings, producer, speaking, wire, recorded, lost, heard>>
Taken(r) == (consumer[r].tail + consumer[r].n) % SIZE

\* The store of tail by the speaker's thread.
Heard ==
    /\ consumer["playback"].at = "store"
    /\ rings' = [rings EXCEPT !["playback"].tail = Taken("playback")]
    /\ heard' = Last(consumer["playback"].got)
    /\ consumer' = [consumer EXCEPT !["playback"] = NotReading]
    /\ UNCHANGED <<producer, speaking, wire, recorded, lost>>

\* send_cb and the store of tail; the next packet is of what was available then.
Sent ==
    LET c == consumer["capture"]
        tail == Taken("capture")
    IN  /\ c.at = "store" /\ Len(wire) < MaxWire
        /\ rings' = [rings EXCEPT !["capture"].tail = tail]
        /\ wire' = Append(wire, c.got)
        /\ consumer' = [consumer EXCEPT !["capture"] =
              IF Available(c.head, tail) >= CHUNK THEN [c EXCEPT !.at = "copy1", !.tail = tail]
              ELSE NotReading]
        /\ UNCHANGED <<producer, speaking, recorded, lost, heard>>

\* KTerm_Voice_Enable, on the frame loop.  Stopping a device waits for its callback
\* (external); starting it again clears the ring.
DisableVoice(r) ==
    LET mine == IF r = "capture" THEN producer[r].at ELSE consumer[r].at
        loop == IF r = "capture" THEN consumer[r].at ELSE producer[r].at
    IN  /\ speaking[r] /\ mine = "idle" /\ loop = "idle"
        /\ speaking' = [speaking EXCEPT ![r] = FALSE]
        /\ UNCHANGED <<rings, producer, consumer, wire, recorded, lost, heard>>
EnableVoice(r) ==
    /\ ~speaking[r]
    /\ speaking' = [speaking EXCEPT ![r] = TRUE]
    /\ rings' = [rings EXCEPT ![r].head = 0, ![r].tail = 0]
    /\ lost' = lost \cup Inside(r)
    /\ UNCHANGED <<producer, consumer, wire, recorded, heard>>

VoiceNext ==
    \/ CaptureCallback \/ ProcessCapture \/ Sent
    \/ ProcessPlayback \/ PlaybackCallback \/ Heard
    \/ \E r \in Rings :
          Copy1(r) \/ Copy2(r) \/ Store(r) \/ Read1(r) \/ Read2(r) \/ DisableVoice(r) \/ EnableVoice(r)

VoiceSpec == VoiceInit /\ [][VoiceNext]_voice

-------------------------------------------------------------------------------
\* Every sample is on its way, has been heard or was dropped whole, with its callback
\* or packet or with the ring, and none twice; what the speaker is given is what was
\* recorded, in order.
OnItsWay ==
    UNION ({Inside(r) : r \in Rings} \cup {ASet(producer[r].samples) : r \in Rings} \cup
           {ASet(wire[k]) : k \in 1 .. Len(wire)})
HearsWhatWasSaid ==
    LET c == consumer["playback"]
        said == <<heard>> \o c.got
    IN  /\ 1 .. recorded \subseteq 1 .. heard \cup lost \cup OnItsWay
        /\ c.at = "store" =>
              \A k \in 1 .. Len(c.got) :
                  /\ said[k + 1] \in said[k] + 1 .. recorded
                  /\ said[k] + 1 .. said[k + 1] - 1 \subseteq lost

===============================================================================
