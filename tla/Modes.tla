-------------------------------- MODULE Modes --------------------------------
(***************************************************************************)
(* The modes of a session: how the host sets and resets them, what DECRQM   *)
(* answers about them, what a level of conformance, a soft reset and a full *)
(* reset leave of them, and what the keys send under them.                  *)
(*                                                                         *)
(* The session is the active one.  What a mode does to the cells, to the    *)
(* tab stops and to the size is in Cursor and AltScreen; here the cursor is *)
(* at home, at the top left of the margins, or away.                        *)
(***************************************************************************)
EXTENDS Integers, Sequences, FiniteSets, TLC

CONSTANTS
    Instructions,   \* what the host may send, <<operation, argument, ...>>
    MaxInput        \* instructions in one behaviour

VARIABLES
    t,          \* the session
    asked,      \* what each mode should be, for those the host has asked for
    input       \* instructions so far

vars == <<t, asked, input>>

-------------------------------------------------------------------------------
(* Levels of conformance. *)

\* vt_level_mappings; a level that is not listed has the features of the first.
Soft == {"SOFT_FONTS", "USER_DEFINED_KEYS"}
Rect == {"RECT_OPERATIONS", "LOCATOR"}
Features(level) ==
    CASE level \in {220, 320} -> Soft
      [] level = 340 -> Soft \cup {"SIXEL", "REGIS", "LOCATOR", "SESSIONS"}
      [] level \in {420, 520} -> Soft \cup Rect \cup {"SESSIONS"}
      [] level = 510 -> Soft \cup Rect
      [] level = 525 -> Soft \cup Rect \cup {"SIXEL", "REGIS", "SESSIONS"}
      [] level = 1000 -> Soft \cup Rect \cup {"SIXEL", "REGIS", "MOUSE", "ALTERNATE"}
      [] level \in {100, 102, 132, 95, 1001, 1002, 1003} -> {}
      [] OTHER -> {"VT52"}

\* What the primary device attributes say: 7 soft fonts, 8 keys, 28 rectangles,
\* 29 a locator.
Claims(level) ==
    CASE level = 1003 \/ level < 220 -> {}
      [] level = 1000 \/ level < 420 -> {7, 8}
      [] OTHER -> {7, 8, 28, 29}
Claimed == 7 :> "SOFT_FONTS" @@ 8 :> "USER_DEFINED_KEYS" @@ 28 :> "RECT_OPERATIONS" @@ 29 :> "LOCATOR"

SetLevel(u, level) == [u EXCEPT !.level = level, !.features = Features(level)]
DECSCL(u, n) ==
    CASE n = 61 -> SetLevel(u, 100) [] n = 62 -> SetLevel(u, 220)
      [] n = 63 -> SetLevel(u, 320) [] n = 64 -> SetLevel(u, 420) [] OTHER -> u

-------------------------------------------------------------------------------
(* Resets. *)

Fresh ==
    [dec |-> {"DECAWM", "DECTCEM", "DECBKM"}, level |-> 1000, features |-> Features(1000),
     at |-> "home", margins |-> "page", saved |-> "none",
     visible |-> TRUE, newline |-> TRUE, keypad |-> FALSE, backarrow |-> TRUE, bits8 |-> FALSE,
     paste |-> FALSE, sync |-> FALSE, locator |-> FALSE, kitty |-> 0, stack |-> <<>>,
     mouse |-> [mode |-> "off", enabled |-> TRUE, sgr |-> FALSE, focus |-> FALSE]]

\* The flags no reset touches, and the cursor that stays saved.
Surviving ==
    {"DECSCLM", "DECSCNM", "DECARM", "DECLRMM", "DECXRLM", "DECNCSM", "DECKBUM", "DECHDPXM",
     "DECESKM", "BDSM"}
RIS(u) ==
    [Fresh EXCEPT !.dec = @ \cup (u.dec \cap Surviving), !.bits8 = u.bits8, !.saved = u.saved]

DECSTR(u) ==
    [u EXCEPT !.dec = (@ \ {"DECOM", "INSERT", "DECCKM"}) \cup {"DECTCEM", "DECAWM"},
              !.at = "home", !.margins = "page", !.saved = "none"]

-------------------------------------------------------------------------------
(* DECSET and DECRST. *)

Put(u, on, flag) == [u EXCEPT !.dec = IF on THEN @ \cup {flag} ELSE @ \ {flag}]

\* The modes that set a flag and do nothing else.
Flag ==
    1 :> "DECCKM" @@ 4 :> "DECSCLM" @@ 5 :> "DECSCNM" @@ 7 :> "DECAWM" @@ 8 :> "DECARM" @@
    12 :> "LOCALECHO" @@ 18 :> "DECPFF" @@ 19 :> "DECPEX" @@ 40 :> "ALLOW" @@ 45 :> "DECEDM" @@
    68 :> "DECKBUM" @@ 80 :> "DECSDM" @@ 88 :> "DECXRLM" @@ 95 :> "DECNCSM" @@ 103 :> "DECHDPXM" @@
    104 :> "DECESKM" @@ 1041 :> "ALTSAVE" @@ 8246 :> "BDSM" @@ 8452 :> "SIXEL_CURSOR"

Columns(u, on) ==
    IF "ALLOW" \notin u.dec \/ on = ("DECCOLM" \in u.dec) THEN u
    ELSE LET wide == Put(u, on, "DECCOLM")
         IN IF "DECNCSM" \in u.dec THEN wide ELSE [wide EXCEPT !.margins = "page", !.at = "home"]

Origin(u, on) ==
    [Put(u, on, "DECOM") EXCEPT !.at = IF on /\ u.margins # "page" THEN "margins" ELSE "home"]

SaveCursor(u) == [u EXCEPT !.saved = u.at]
RestoreCursor(u) == IF u.saved = "none" THEN u ELSE [u EXCEPT !.at = u.saved]

\* SwitchScreenBuffer exchanges the buffers, and once more if that was wrong.
Swapped(u) == Put(u, "ALTSCREEN" \notin u.dec, "ALTSCREEN")
SwitchScreen(u, on) ==
    IF "ALTERNATE" \notin u.features THEN u
    ELSE IF on = ("ALTSCREEN" \in Swapped(u).dec) THEN Swapped(u) ELSE Swapped(Swapped(u))
AlternateOnly(u, on) ==
    LET cursor == "ALTSAVE" \in u.dec
        v == SwitchScreen(IF on /\ cursor THEN SaveCursor(u) ELSE u, on)
    IN IF ~on /\ cursor THEN RestoreCursor(v) ELSE v
AlternateSaving(u, on) ==
    IF on THEN [SwitchScreen(SaveCursor(u), TRUE) EXCEPT !.at = "home"]
    ELSE RestoreCursor(SwitchScreen(u, FALSE))

\* The mouse: a mode that is switched off leaves none, whichever was on.
Track(u, on, mode) ==
    [u EXCEPT !.mouse.enabled = on, !.mouse.mode = IF on THEN mode ELSE "off"]
\* Wrong variant: without SGR reports there are none.
SgrMouseOff(u, on) ==
    [u EXCEPT !.mouse.sgr = on,
              !.mouse.mode = IF on /\ @ \notin {"off", "urxvt", "pixel"} THEN "sgr"
                             ELSE IF ~on /\ @ = "sgr" THEN "off" ELSE @]
SgrMouse(u, on) ==
    [u EXCEPT !.mouse.sgr = on,
              !.mouse.mode = IF on /\ @ \notin {"off", "urxvt", "pixel"} THEN "sgr"
                             ELSE IF ~on /\ @ = "sgr" THEN "vt200" ELSE @]
Exclusive(u, on, mode) ==
    IF on \/ u.mouse.mode = mode THEN Track(u, on, mode) ELSE u
Mouse(u, n, on) ==
    CASE n = 9 -> Track(u, on, "x10")
      [] n = 1000 -> Track(u, on, IF u.mouse.sgr THEN "sgr" ELSE "vt200")
      [] n = 1001 -> Track(u, on, "highlight")
      [] n = 1002 -> Track(u, on, "button")
      [] n = 1003 -> Track(u, on, "any")
      [] n = 1006 -> SgrMouse(u, on)
      [] n = 1015 -> Exclusive(u, on, "urxvt")
      [] n = 1016 -> Exclusive(u, on, "pixel")
Buttons == {9, 1000, 1001, 1002, 1003}

\* Mode 38 only selects a state of the parser, which the end of the control
\* sequence selects anew, as does 2 where VT52 is a feature.
Private(u, n, on) ==
    CASE n \in DOMAIN Flag -> Put(u, on, Flag[n])
      [] n = 2 -> Put(u, ~on, "VT52")
      [] n = 3 -> Columns(u, on)
      [] n = 6 -> Origin(u, on)
      [] n \in Buttons \cup {1006, 1015, 1016} -> Mouse(u, n, on)
      [] n = 25 -> [Put(u, on, "DECTCEM") EXCEPT !.visible = on]
      [] n = 41 -> [u EXCEPT !.locator = on]
      [] n \in {47, 1047} -> AlternateOnly(u, on)
      [] n = 64 -> [u EXCEPT !.features = IF on THEN @ \cup {"SESSIONS"} ELSE @ \ {"SESSIONS"}]
      [] n = 67 -> [Put(u, on, "DECBKM") EXCEPT !.backarrow = on]
      [] n = 1048 -> IF on THEN SaveCursor(u) ELSE RestoreCursor(u)
      [] n \in {10, 66} -> [u EXCEPT !.keypad = on]
      [] n = 69 -> [Put(u, on, "DECLRMM") EXCEPT !.margins = IF on THEN @ ELSE "page"]
      [] n = 1049 -> AlternateSaving(u, on)
      [] n = 1004 -> [u EXCEPT !.mouse.focus = on]
      [] n = 2026 -> [u EXCEPT !.sync = on]
      [] n = 2004 -> [u EXCEPT !.paste = on]
      [] OTHER -> u

Ansi(u, n, on) ==
    CASE n = 4 -> Put(u, on, "INSERT")
      [] n = 12 -> Put(u, ~on, "LOCALECHO")
      [] n = 20 -> [u EXCEPT !.newline = on]
      [] n = 7 /\ u.level = 1003 -> Put(u, on, "DECAWM")
      [] OTHER -> u

SetMode(u, private, n, on) ==
    IF ~private THEN Ansi(u, n, on) ELSE IF u.level = 1003 THEN u ELSE Private(u, n, on)

\* The keyboard flags of the Kitty protocol, of which one is enough here.
Keyboard(u, way, n) ==
    CASE way = "push" -> [u EXCEPT !.stack = IF Len(@) < 16 THEN Append(@, u.kitty) ELSE @, !.kitty = n]
      [] way = "pop" -> IF u.stack = <<>> THEN [u EXCEPT !.kitty = 0]
                        ELSE [u EXCEPT !.kitty = u.stack[Len(u.stack)], !.stack = SubSeq(@, 1, Len(@) - 1)]
      [] way = "set" -> [u EXCEPT !.kitty = n]
      [] way = "clear" -> [u EXCEPT !.kitty = IF n = 1 THEN 0 ELSE @]

-------------------------------------------------------------------------------
(* DECRQM: 0 is not recognized, 1 set, 2 reset, 3 always set, 4 always reset. *)

SetOrReset(b) == IF b THEN 1 ELSE 2
Asked == 1 :> "DECCKM" @@ 3 :> "DECCOLM" @@ 4 :> "DECSCLM" @@ 5 :> "DECSCNM" @@ 6 :> "DECOM" @@
    7 :> "DECAWM" @@ 8 :> "DECARM" @@ 9 :> "X10MOUSE" @@ 12 :> "BLINKCURSOR" @@ 18 :> "DECPFF" @@
    19 :> "DECPEX" @@ 25 :> "DECTCEM" @@ 47 :> "ALTSCREEN" @@ 1047 :> "ALTSCREEN" @@ 1049 :> "ALTSCREEN"
DECRQM(u, private, n) ==
    CASE private /\ n \in DOMAIN Asked -> SetOrReset(Asked[n] \in u.dec)
      [] private /\ n = 10 -> 4
      [] private /\ n = 38 -> 2
      [] private /\ n = 1000 -> SetOrReset(u.mouse.mode = "vt200")
      [] private /\ n = 2004 -> SetOrReset(u.paste)
      [] private /\ n \in 61 .. 64 ->
            SetOrReset(u.level = (61 :> 100 @@ 62 :> 220 @@ 63 :> 520 @@ 64 :> 420)[n])
      [] ~private /\ n = 4 -> 2
      [] ~private /\ n = 20 -> IF u.newline THEN 1 ELSE 3
      [] OTHER -> 0

-------------------------------------------------------------------------------
(* Keys: a key with its modifiers, or a character that was typed. *)

Key(k, mods) == [key |-> k, mods |-> mods]
Typed(c) == [key |-> c, mods |-> {}]

\* The keys the Kitty protocol has a number for, letters apart.
KittyCode ==
    "escape" :> 27 @@ "enter" :> 13 @@ "tab" :> 9 @@ "backspace" :> 127 @@ "insert" :> 57349 @@
    "up" :> 57353 @@ "page" :> 57355 @@ "home" :> 57357 @@ "f1" :> 57370 @@ "kp0" :> 57418 @@
    "kpenter" :> 57433
Modifiers(mods) ==
    1 + (IF "shift" \in mods THEN 1 ELSE 0) + (IF "alt" \in mods THEN 2 ELSE 0)
      + (IF "ctrl" \in mods THEN 4 ELSE 0)

\* Key A and the character A have one code; a character comes without modifiers.
KittyKey(e) ==
    CASE e.key \in {"A", "typed A"} ->
            IF e.mods = {} THEN <<"a">>
            ELSE <<"CSI", IF "shift" \in e.mods THEN 65 ELSE 97, Modifiers(e.mods), "u">>
      [] e.key \in DOMAIN KittyCode -> <<"CSI", KittyCode[e.key], Modifiers(e.mods), "u">>
      [] e.key = "typed a" -> <<"a">>

Tilde == "page" :> 5 @@ "insert" :> 2
LegacyKey(u, e) ==
    LET application == "DECCKM" \in u.dec
        final == IF e.key = "up" THEN "A" ELSE "H"
    IN CASE e.key = "typed a" -> <<"a">>
         [] e.key = "typed A" -> <<"A">>
         [] e.key = "A" /\ "ctrl" \in e.mods -> <<"^A">>
         [] e.key = "A" /\ "ctrl" \notin e.mods /\ "alt" \in e.mods ->
                <<"ESC", IF "shift" \in e.mods THEN "A" ELSE "a">>
         [] e.key = "up" /\ "ctrl" \in e.mods -> <<"CSI", 1, 5, final>>
         [] e.key = "up" /\ "ctrl" \notin e.mods /\ "alt" \in e.mods -> <<"CSI", 1, 3, final>>
         [] e.key = "home" \/ (e.key = "up" /\ {"ctrl", "alt"} \cap e.mods = {}) ->
                <<IF application THEN "SS3" ELSE "CSI", final>>
         [] e.key \in DOMAIN Tilde -> <<"CSI", Tilde[e.key], "~">>
         [] e.key = "f1" -> <<"SS3", "P">>
         [] e.key = "enter" -> <<IF u.newline THEN "CR" ELSE "LF">>
         [] e.key = "tab" -> <<"TAB">>
         [] e.key = "escape" -> <<"ESC">>
         [] e.key = "backspace" -> <<IF u.backarrow THEN "BS" ELSE "DEL">>
         [] e.key = "kp0" -> IF u.keypad THEN <<"SS3", "p">> ELSE <<"0">>
         [] e.key = "kpenter" -> IF u.keypad THEN <<"SS3", "M">> ELSE <<"CR">>
         [] OTHER -> <<>>

\* KTerm_TranslateKey.
Sends(u, e) == IF u.kitty # 0 THEN KittyKey(e) ELSE LegacyKey(u, e)

-------------------------------------------------------------------------------
(* What the host asks, and what it may expect then. *)

\* The modes that are the same one, or of which only one can be on.
Group(k) ==
    CASE k \in {<<TRUE, 10>>, <<TRUE, 66>>} -> {<<TRUE, 10>>, <<TRUE, 66>>}
      [] k \in {<<TRUE, 12>>, <<FALSE, 12>>} -> {<<TRUE, 12>>, <<FALSE, 12>>}
      [] k \in {<<TRUE, 7>>, <<FALSE, 7>>} -> {<<TRUE, 7>>, <<FALSE, 7>>}
      [] k \in {<<TRUE, 47>>, <<TRUE, 1047>>, <<TRUE, 1049>>} ->
            {<<TRUE, 47>>, <<TRUE, 1047>>, <<TRUE, 1049>>}
      [] k[1] /\ k[2] \in Buttons \cup {1015, 1016} -> {TRUE} \X (Buttons \cup {1015, 1016})
      [] OTHER -> {k}
Meant(k, on) ==
    [g \in Group(k) |->
        CASE k[2] = 12 -> on = (g = k)
          [] k[1] /\ k[2] \in Buttons \cup {1015, 1016} -> on /\ g = k
          [] OTHER -> on]

\* A mode that is ignored is not asked for: columns without mode 40, a screen
\* the level does not have, an encoding that is not on, private modes in ANSI.SYS
\* and its own elsewhere; and saving the cursor is no mode.
Ignored(u, k, on) ==
    \/ k[1] /\ u.level = 1003
    \/ k = <<FALSE, 7>> /\ u.level # 1003
    \/ k = <<TRUE, 1048>>
    \/ k = <<TRUE, 3>> /\ "ALLOW" \notin u.dec
    \/ k[1] /\ k[2] \in {47, 1047, 1049} /\ "ALTERNATE" \notin u.features
    \/ k[1] /\ k[2] \in {1015, 1016} /\ ~on /\ SetMode(u, TRUE, k[2], on) = u
    \/ SetMode(u, k[1], k[2], on) = u /\ DECRQM(u, k[1], k[2]) = 0

\* A level says itself whether there are sessions.
Unsaid == [k \in DOMAIN asked \ {<<TRUE, 64>>} |-> asked[k]]

\* Under the VT52 flag an escape begins a VT52 command, and only these are heard.
Obey ==
    \E i \in Instructions :
        /\ "VT52" \in t.dec => i[1] \in {"keypad", "ansi", "level"}
        /\ "VT52" \notin t.dec => i[1] # "ansi"
        /\ CASE i[1] = "mode" ->
                    /\ t' = SetMode(t, i[2], i[3], i[4])
                    /\ asked' = IF Ignored(t, <<i[2], i[3]>>, i[4]) THEN asked
                                ELSE Meant(<<i[2], i[3]>>, i[4]) @@ asked
             [] i[1] = "keypad" ->
                    /\ t' = [t EXCEPT !.keypad = i[2]]
                    /\ asked' = Meant(<<TRUE, 66>>, i[2]) @@ asked
             [] i[1] = "ansi" ->
                    /\ t' = Put(t, FALSE, "VT52")
                    /\ asked' = (<<TRUE, 2>> :> TRUE) @@ asked
             [] i[1] = "bits" -> t' = [t EXCEPT !.bits8 = i[2]] /\ UNCHANGED asked
             [] i[1] = "kitty" -> t' = Keyboard(t, i[2], i[3]) /\ UNCHANGED asked
             [] i[1] = "level" -> t' = SetLevel(t, i[2]) /\ asked' = Unsaid
             [] i[1] = "DECSCL" -> t' = DECSCL(t, i[2]) /\ asked' = Unsaid
             [] i[1] = "margins" ->
                    t' = [t EXCEPT !.margins = "set", !.at = "home"] /\ UNCHANGED asked
             [] i[1] = "text" -> t' = [t EXCEPT !.at = "away"] /\ UNCHANGED asked
             [] i[1] = "DECSTR" ->
                    /\ t' = DECSTR(t)
                    /\ asked' = Meant(<<TRUE, 25>>, TRUE) @@ Meant(<<TRUE, 7>>, TRUE) @@
                        Meant(<<TRUE, 6>>, FALSE) @@ Meant(<<FALSE, 4>>, FALSE) @@
                        Meant(<<TRUE, 1>>, FALSE) @@ asked
             [] i[1] = "RIS" -> t' = RIS(t) /\ asked' = <<>>

Init ==
    /\ t = Fresh
    /\ asked = <<>>
    /\ input = 0
Next == input < MaxInput /\ input' = input + 1 /\ Obey
Spec == Init /\ [][Next]_vars

-------------------------------------------------------------------------------
(* What a mode is for. *)

Kind == 9 :> "x10" @@ 1000 :> "vt200" @@ 1001 :> "highlight" @@ 1002 :> "button" @@ 1003 :> "any"
Does(u, k) ==
    CASE k = <<TRUE, 1>> -> LegacyKey(u, Key("up", {}))[1] = "SS3"
      [] k = <<TRUE, 2>> -> "VT52" \notin u.dec
      [] k = <<TRUE, 3>> -> "DECCOLM" \in u.dec
      [] k = <<TRUE, 6>> -> "DECOM" \in u.dec
      [] k = <<TRUE, 25>> -> u.visible
      [] k[1] /\ k[2] \in {47, 1047, 1049} -> "ALTSCREEN" \in u.dec
      [] k = <<TRUE, 64>> -> "SESSIONS" \in u.features
      [] k = <<TRUE, 67>> -> LegacyKey(u, Key("backspace", {})) = <<"BS">>
      [] k \in {<<TRUE, 10>>, <<TRUE, 66>>} -> LegacyKey(u, Key("kp0", {})) = <<"SS3", "p">>
      [] k = <<TRUE, 69>> -> "DECLRMM" \in u.dec
      [] k[1] /\ k[2] \in Buttons -> u.mouse.mode = Kind[k[2]] /\ u.mouse.enabled
      [] k = <<TRUE, 1015>> -> u.mouse.mode = "urxvt"
      [] k = <<TRUE, 1016>> -> u.mouse.mode = "pixel"
      [] k = <<TRUE, 1006>> -> u.mouse.sgr
      [] k = <<TRUE, 1004>> -> u.mouse.focus
      [] k = <<TRUE, 2026>> -> u.sync
      [] k = <<TRUE, 2004>> -> u.paste
      [] k = <<TRUE, 41>> -> u.locator
      [] k = <<FALSE, 4>> -> "INSERT" \in u.dec
      [] k = <<FALSE, 12>> -> "LOCALECHO" \notin u.dec
      [] k = <<FALSE, 20>> -> u.newline
      [] k = <<FALSE, 7>> -> "DECAWM" \in u.dec
      [] k[1] /\ k[2] \in DOMAIN Flag -> Flag[k[2]] \in u.dec

\* What the code does otherwise: a soft reset says the cursor is shown and leaves
\* it hidden; and whoever asks for SGR reports after the kind of mouse reports, as
\* most do, gets the ordinary kind (1003 tells no movements any more).
Excused(u, k) ==
    \/ k = <<TRUE, 25>> /\ "DECTCEM" \in u.dec
    \/ k[1] /\ k[2] \in Buttons /\ u.mouse.mode \in {"sgr", "vt200"} /\ u.mouse.enabled

\* Modes DECRQM answers for from something else than what SM and RM set.
Mistaken(u) ==
    {<<TRUE, 9>>, <<TRUE, 10>>, <<TRUE, 12>>, <<TRUE, 64>>, <<FALSE, 4>>} \cup
    (IF u.mouse.mode = "vt200" THEN {} ELSE {<<TRUE, 1000>>}) \cup
    (IF u.newline THEN {} ELSE {<<FALSE, 20>>})

\* The modes do what the host has last asked of them, in whatever order it asked,
\* and DECRQM says so (but for the modes it mistakes); a full reset forgets what
\* was asked, but for the flags that survive it (KTerm_ResetSessionDefaults
\* clears the others one by one); the device attributes claim only what the level
\* has, the emulations 1001 and 1002 apart; and no two key strokes send the same
\* under the Kitty protocol, except that a capital letter arrives as a small one.
Strokes ==
    {Typed("typed a")} \cup
    {Key(k, mods) : k \in DOMAIN KittyCode, mods \in SUBSET {"shift", "alt", "ctrl"}} \cup
    {Key("A", mods) : mods \in SUBSET {"shift", "alt", "ctrl"} \ {{}, {"shift"}}}
ModesAsAsked ==
    /\ \A k \in DOMAIN asked :
        /\ Does(t, k) = asked[k] \/ Excused(t, k)
        /\ DECRQM(t, k[1], k[2]) \in {0, SetOrReset(asked[k])} \/ k \in Mistaken(t) \/ Excused(t, k)
    /\ \A k \in DOMAIN asked :
        \/ Does(RIS(t), k) = Does(Fresh, k)
        \/ k[1] /\ (k[2] = 69 \/ (k[2] \in DOMAIN Flag /\ Flag[k[2]] \in Surviving))
    /\ t.level \in {1001, 1002} \/ \A n \in Claims(t.level) : Claimed[n] \in Features(t.level)
    /\ t.kitty # 0 => Cardinality({Sends(t, e) : e \in Strokes}) = Cardinality(Strokes)
===============================================================================
