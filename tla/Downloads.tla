------------------------------- MODULE Downloads -------------------------------
(***************************************************************************)
(* What hosts store in a session by device control strings: macros (DECDMAC) *)
(* and the sequences of user-defined keys (DECUDK), how they are asked for   *)
(* (DSR 20, DECRQPKU) and what a press of a key sends.  KTerm_ExecuteDCSCommand *)
(* tells the strings apart.  ExecuteInvokeMacro, which would replay a macro,  *)
(* is called from nowhere, so macros are stored, counted and dropped only.   *)
(*                                                                         *)
(* A string is a record of the fields its scanners find.  Allocations that   *)
(* fail are left out.                                                        *)
(***************************************************************************)
EXTENDS Integers, Sequences, FiniteSets, SequencesExt, FiniteSetsExt, Functions

CONSTANTS
    Session,
    Keyed,          \* the sessions whose conformance has KTERM_FEATURE_USER_DEFINED_KEYS
    Echoing,        \* the sessions with KTERM_MODE_LOCALECHO
    MacroSpace,     \* macro_space.total
    SitKey,         \* the platform's code of a key: a function on the keys' VT numbers
    Strings,        \* the device control strings hosts send
    MaxStrings

VARIABLES
    macros,     \* per session: stored_macros, a sequence of [id, held, content, length]
    used,       \* per session: stored_macros.total_memory_used
    keys,       \* per session: programmable_keys, a sequence of [code, sequence]
    active,     \* active_session
    answer,     \* what was just queued as an answer: to whom, for which session, about
                \* which key, and what
    typed,      \* what was put in the active session's input by local echo
    known,      \* ghost, per session: what its host knows to be stored
    strings     \* strings received

vars == <<macros, used, keys, active, answer, typed, known, strings>>

None == 0 - 1     \* no session, key or number
Says(to, from, key, what) == [to |-> to, from |-> from, key |-> key, says |-> what]
Nothing == Says(None, None, None, <<>>)

Init ==
    /\ macros = [s \in Session |-> <<>>]
    /\ used = [s \in Session |-> 0]
    /\ keys = [s \in Session |-> <<>>]
    /\ active = CHOOSE s \in Session : TRUE
    /\ answer = Nothing /\ typed = <<>>
    /\ known = [s \in Session |-> [macros |-> <<>>, keys |-> <<>>]]
    /\ strings = 0

-------------------------------------------------------------------------------
(* Macros *)

\* Pairs of hexadecimal digits; an odd digit at the end is dropped.
Decode(digits) == [k \in 1 .. Len(digits) \div 2 |-> 16 * digits[2 * k - 1] + digits[2 * k]]

\* Wrong variant: what the old content took is not given back.
ForgetKeeping(total, macro) == total

\* The old content is freed before it is known whether the new one has room.
Forget(total, macro) ==
    IF macro.held /\ total >= macro.length THEN total - macro.length ELSE total

\* ProcessMacroDefinition: the first macro with the number, or a new one.
MacroDefinition(s, m) ==
    LET old == SelectInSeq(macros[s], LAMBDA e : e.id = m.id)
        at == IF old = 0 THEN Len(macros[s]) + 1 ELSE old
        total == IF old = 0 THEN used[s] ELSE Forget(used[s], macros[s][old])
        content == IF m.encoding = 1 THEN Decode(m.data) ELSE m.data
        full == total + Len(content) > MacroSpace
        macro == IF full THEN [id |-> m.id, held |-> FALSE, content |-> <<>>, length |-> 0]
                 ELSE [id |-> m.id, held |-> TRUE, content |-> content, length |-> Len(content)]
    IN  /\ macros' = [macros EXCEPT ![s] = IF old = 0 THEN Append(@, macro) ELSE [@ EXCEPT ![old] = macro]]
        /\ used' = [used EXCEPT ![s] = IF full THEN total ELSE total + macro.length]
        /\ answer' = Says(s, s, None, <<IF full THEN "ERR" ELSE "OK">>)
        /\ known' = [known EXCEPT ![s].macros =
                        [id \in (DOMAIN @ \cup {m.id}) \ (IF full THEN {m.id} ELSE {}) |->
                            IF id = m.id THEN content ELSE @[id]]]
        /\ UNCHANGED <<keys, active, typed>>

\* DSR 20: the space that is free, as far as macro_space.used says, which nothing
\* changes, and the entries.
ReportMacros(s) ==
    /\ answer' = Says(s, s, None, <<"?20", MacroSpace, Len(macros[s])>>)
    /\ UNCHANGED <<macros, used, keys, active, typed, known, strings>>

-------------------------------------------------------------------------------
(* User-defined keys *)

\* DefineUserKey: one entry per key.
DefineUserKey(list, key) ==
    LET old == SelectInSeq(list, LAMBDA e : e.code = key.code)
    IN  IF old = 0 THEN Append(list, key) ELSE [list EXCEPT ![old] = key]

\* ProcessUserDefinedKeys reads the string from its start, so its first definition
\* is passed over with the parameters before it, which no '/' follows; a
\* definition without a number ends it; no digits, or an odd number, define nothing.
Definitions(m) ==
    LET read == IF m.params = <<>> THEN <<>> ELSE Tail(m.list)
        end == SelectInSeq(read, LAMBDA d : d.code = None)
        good == SelectSeq(IF end = 0 THEN read ELSE SubSeq(read, 1, end - 1),
                          LAMBDA d : d.digits # <<>> /\ Len(d.digits) % 2 = 0)
    IN  [k \in 1 .. Len(good) |-> [code |-> good[k].code, sequence |-> Decode(good[k].digits)]]

\* ClearUserDefinedKeys, if the first parameter is 0, then the definitions.
UserDefinedKeys(s, m) ==
    LET cleared == m.params # <<>> /\ m.params[1] = 0
        defined == IF s \in Keyed THEN Definitions(m) ELSE <<>>
        Newest(code) == defined[SelectLastInSeq(defined, LAMBDA d : d.code = code)].sequence
        codes == {defined[k].code : k \in DOMAIN defined}
    IN  /\ keys' = [keys EXCEPT ![s] = FoldLeft(DefineUserKey, IF cleared THEN <<>> ELSE @, defined)]
        /\ known' = [known EXCEPT ![s].keys =
                        [code \in codes \cup (IF cleared THEN {} ELSE DOMAIN @) |->
                            IF code \in codes THEN Newest(code) ELSE @[code]]]
        /\ answer' = Nothing
        /\ UNCHANGED <<macros, used, active, typed>>

Junk == 255
\* A sequence is stored without an end and sent up to the next zero byte: of its
\* own, or of the memory behind it.
UpToZero(sequence) ==
    LET zero == SelectInSeq(sequence, LAMBDA b : b = 0)
    IN  IF zero = 0 THEN sequence ELSE SubSeq(sequence, 1, zero - 1)
Sent(sequence) ==
    IF 0 \in Range(sequence) THEN {UpToZero(sequence)} ELSE {sequence, Append(sequence, Junk)}

SequenceOf(s, code) ==
    LET k == SelectInSeq(keys[s], LAMBDA e : e.code = code)
    IN  IF k = 0 THEN {<<>>} ELSE Sent(keys[s][k].sequence)

\* KTermSit_ProcessSingleKey: the keyboard is the active session's.
Press(code) ==
    /\ \E k \in DOMAIN keys[active] : keys[active][k].code = code
    /\ \E sent \in SequenceOf(active, code) :
          /\ answer' = Says(active, active, code, sent)
          /\ typed' = IF active \in Echoing THEN sent ELSE <<>>
    /\ UNCHANGED <<macros, used, keys, active, known, strings>>

\* ExecuteDECRQPKU: by VT number, told to the active session's host.
RequestKey(s, number) ==
    /\ IF number \notin DOMAIN SitKey THEN answer' = Says(active, s, None, <<>>)
       ELSE \E sent \in SequenceOf(s, SitKey[number]) : answer' = Says(active, s, SitKey[number], sent)
    /\ UNCHANGED <<macros, used, keys, active, typed, known, strings>>

-------------------------------------------------------------------------------
\* KTerm_ExecuteDCSCommand: what follows the parameters tells what is stored.
DCSCommand(s) ==
    /\ strings < MaxStrings
    /\ strings' = strings + 1
    /\ \E m \in Strings :
          \/ m.intro = "!z" /\ MacroDefinition(s, m)
          \/ m.intro = "|" /\ UserDefinedKeys(s, m)

SetActive(s) ==
    /\ active # s
    /\ active' = s /\ answer' = Nothing
    /\ UNCHANGED <<macros, used, keys, typed, known, strings>>

Next ==
    \/ \E s \in Session :
          \/ DCSCommand(s)
          \/ ReportMacros(s)
          \/ SetActive(s)
          \/ \E number \in DOMAIN SitKey \cup {1} : RequestKey(s, number)
    \/ \E code \in Range(SitKey) : Press(code)

Spec == Init /\ [][Next]_vars

-------------------------------------------------------------------------------
(* Properties *)

Held(s) == SelectSeq(macros[s], LAMBDA e : e.held)

\* What the host was told is stored, and only that, is stored, as it was sent:
\* of every macro and every key the last definition that was not refused.  The
\* macros take the space that is accounted for, which has a limit, and of a key its
\* definition is sent, up to a zero byte, if it is pressed or asked for (whatever
\* may follow in memory).  The first definition of a string of keys is passed over.
HoldsWhatWasSent ==
    /\ \A s \in Session :
          /\ used[s] = FoldLeft(LAMBDA n, e : n + Len(e.content), 0, Held(s))
          /\ used[s] <= MacroSpace
          /\ {<<e.id, e.content>> : e \in Range(Held(s))} =
                {<<id, known[s].macros[id]>> : id \in DOMAIN known[s].macros}
          /\ {<<e.code, e.sequence>> : e \in Range(keys[s])} =
                {<<code, known[s].keys[code]>> : code \in DOMAIN known[s].keys}
          /\ IsInjective([k \in DOMAIN macros[s] |-> macros[s][k].id])
          /\ IsInjective([k \in DOMAIN keys[s] |-> keys[s][k].code])
    /\ answer.key # None /\ answer.key \in DOMAIN known[answer.from].keys =>
          IsPrefix(UpToZero(known[answer.from].keys[answer.key]), answer.says)
===============================================================================
