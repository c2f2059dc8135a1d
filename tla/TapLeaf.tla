------------------------------ MODULE TapLeaf ------------------------------
(***************************************************************************)
(* The tapscript leaves the Snap may sign (timeout-leaf.ts,                *)
(* cosign-leaf.ts) and the Taproot outputs that commit to them.            *)
(*                                                                         *)
(* A script is a sequence of bytes, except that the 32 bytes of a public   *)
(* key or of a hash are one element, a number above every byte.            *)
(***************************************************************************)
EXTENDS Integers, Sequences, Bags

CONSTANTS
    Keys,       \* x-only public keys and 20-byte hashes
    None        \* nothing

Byte == 0 .. 255

ASSUME KeysAssumption == Keys \subseteq Nat /\ Keys \cap Byte = {}

\* Nothing is no number, and no result of a match.
ASSUME NoneAssumption ==
    /\ None \notin Int
    /\ None \notin [window : Nat, consumed : Nat]
    /\ None \notin [operator : Keys, window : Nat]
    /\ None \notin [client : Keys, guard : Keys]

OP_0 == 0
PUSH_32 == 32
OP_PUSHDATA1 == 76
OP_PUSHDATA2 == 77
OP_PUSHDATA4 == 78
OP_1 == 81
OP_16 == 96
OP_IF == 99
OP_ENDIF == 104
OP_DROP == 117
OP_CHECKSIG == 172
OP_CHECKSIGVERIFY == 173
OP_CSV == 178

\* Numbers are only compared with bounds below this one: a delay with 65535,
\* the length of a push with that of a PSBT.
Saturated == 1048576

LittleEndian(bytes) ==
    LET value[i \in 0 .. Len(bytes)] ==
            IF i = 0 THEN 0
            ELSE LET v == value[i - 1] * 256 + bytes[Len(bytes) - i + 1]
                 IN  IF v > Saturated THEN Saturated ELSE v
    IN  value[Len(bytes)]

\* A script found in a PSBT, which is at most MAX_PSBT_BASE64_LENGTH long. A key
\* or a hash is the data of a push of its length.
IsScript(s) ==
    /\ s \in Seq(Byte \cup Keys) /\ Len(s) < Saturated
    /\ \A i \in DOMAIN s : s[i] \in Keys => i > 1 /\ s[i - 1] \in {20, PUSH_32}

-----------------------------------------------------------------------------
(* decodeWindow, matchTimeoutLeafHex.                                      *)

\* The checks of script.number.decode(bytes, 5, true) in bitcoinjs-lib.
MinimalNumber(bytes) ==
    LET n == Len(bytes) IN
    bytes[n] % 128 # 0 \/ (n > 1 /\ bytes[n - 1] >= 128)

NegativeNumber(bytes) == bytes[Len(bytes)] >= 128

\* Mutant of BlockDelay: small numbers may be pushed as bytes.
BlockDelayUnchecked(bytes) ==
    /\ MinimalNumber(bytes) /\ ~NegativeNumber(bytes)
    /\ LittleEndian(bytes) <= 65535

\* Mutant of BlockDelay: the number may exceed sixteen bits.
BlockDelayUnbounded(bytes) ==
    /\ MinimalNumber(bytes) /\ ~NegativeNumber(bytes)
    /\ LittleEndian(bytes) > 16

BlockDelay(bytes) ==
    /\ MinimalNumber(bytes) /\ ~NegativeNumber(bytes)
    /\ LittleEndian(bytes) > 16
    /\ LittleEndian(bytes) <= 65535

PushedBytes(leaf) == SubSeq(leaf, 2, leaf[1] + 1)

SmallDelay(leaf) == leaf # <<>> /\ leaf[1] \in OP_1 .. OP_16
PushedDelay(leaf) ==
    /\ leaf # <<>>
    /\ leaf[1] \in 1 .. 5
    /\ Len(leaf) >= 1 + leaf[1]
    /\ BlockDelay(PushedBytes(leaf))

decodeWindow(leaf) ==
    IF SmallDelay(leaf) THEN [window |-> leaf[1] - OP_1 + 1, consumed |-> 1]
    ELSE IF PushedDelay(leaf)
         THEN [window |-> LittleEndian(PushedBytes(leaf)), consumed |-> 1 + leaf[1]]
         ELSE None

TimeoutTail(k) == <<OP_CSV, OP_DROP, PUSH_32, k, OP_CHECKSIG>>

matchTimeoutLeaf(leaf) ==
    LET w == decodeWindow(leaf) IN
    IF w = None THEN None
    ELSE LET tail == SubSeq(leaf, w.consumed + 1, Len(leaf)) IN
         IF Len(tail) = 5 /\ tail[4] \in Keys /\ tail = TimeoutTail(tail[4])
         THEN [operator |-> tail[4], window |-> w.window]
         ELSE None

-----------------------------------------------------------------------------
(* isOrdEnvelope, matchCosignLeafHex.                                      *)

OrdPrefix == <<OP_0, OP_IF, 3, 111, 114, 100>>

\* The bytes that hold the length of the push at i, beyond its opcode.
LengthBytes(op) ==
    CASE op = OP_PUSHDATA1 -> 1
      [] op = OP_PUSHDATA2 -> 2
      [] op = OP_PUSHDATA4 -> 4
      [] OTHER -> 0

PushLength(e, i) ==
    IF e[i] < OP_PUSHDATA1 THEN e[i]
    ELSE LittleEndian(SubSeq(e, i + 1, i + LengthBytes(e[i])))

NextInstruction(e, i) == i + 1 + LengthBytes(e[i]) + PushLength(e, i)

IsPush(e, i) ==
    /\ e[i] <= OP_PUSHDATA4
    /\ i + LengthBytes(e[i]) <= Len(e)
    /\ NextInstruction(e, i) <= Len(e) + 1

\* Mutant of Closes: the loop stops at the first OP_ENDIF.
ClosesAtFirst(e) ==
    LET closes[i \in 1 .. Len(e) + 1] ==
            IF i > Len(e) THEN FALSE
            ELSE IF e[i] = OP_ENDIF THEN TRUE
            ELSE IsPush(e, i) /\ closes[NextInstruction(e, i)]
    IN  closes[3]

\* The loop: from the instruction after OP_IF, pushes, then an OP_ENDIF that
\* is the last byte.
Closes(e) ==
    LET closes[i \in 1 .. Len(e) + 1] ==
            IF i > Len(e) THEN FALSE
            ELSE IF e[i] = OP_ENDIF THEN i = Len(e)
            ELSE IsPush(e, i) /\ closes[NextInstruction(e, i)]
    IN  closes[3]

isOrdEnvelope(e) ==
    /\ Len(e) > Len(OrdPrefix)
    /\ SubSeq(e, 1, Len(OrdPrefix)) = OrdPrefix
    /\ e[Len(e)] = OP_ENDIF
    /\ Closes(e)

CosignHead(c, g) == <<PUSH_32, c, OP_CHECKSIGVERIFY, PUSH_32, g, OP_CHECKSIG>>

matchCosignLeaf(leaf) ==
    LET envelope == SubSeq(leaf, 7, Len(leaf)) IN
    IF /\ Len(leaf) >= 6
       /\ leaf[2] \in Keys /\ leaf[5] \in Keys
       /\ SubSeq(leaf, 1, 6) = CosignHead(leaf[2], leaf[5])
       /\ leaf[2] # leaf[5]
       /\ envelope = <<>> \/ isOrdEnvelope(envelope)
    THEN [client |-> leaf[2], guard |-> leaf[5]]
    ELSE None

-----------------------------------------------------------------------------
(* Outputs.  A Taproot output stands for its internal key and the leaves   *)
(* of its tree, which may occur more than once.                            *)

Wpkh(k) == [type |-> "wpkh", key |-> k]
Taproot(internal, leaves) == [type |-> "p2tr", internal |-> internal, leaves |-> SetToBag(leaves)]
IsTaproot(script) == script.type = "p2tr"

\* tapLeafCommitsToOutputKey: a control block proves a leaf only of an output
\* whose tree has it; `proves` is FALSE for a malformed or foreign one.
Commits(tapLeaf, script) ==
    /\ tapLeaf.proves
    /\ IsTaproot(script)
    /\ BagIn(tapLeaf.script, script.leaves)

-----------------------------------------------------------------------------
(* Reference definitions.                                                  *)

\* The shortest script that leaves the block delay w on the stack.
NumberPush(w) ==
    IF w <= 16 THEN <<OP_1 + w - 1>>
    ELSE IF w < 128 THEN <<1, w>>
    ELSE IF w < 32768 THEN <<2, w % 256, w \div 256>>
    ELSE <<3, w % 256, w \div 256, 0>>

TimeoutLeaf(w, k) == NumberPush(w) \o TimeoutTail(k)

\* One push instruction and its data, nothing missing and nothing more.
IsPushScript(s) ==
    \/ s[1] < OP_PUSHDATA1 /\ Len(s) = 1 + s[1]
    \/ s[1] = OP_PUSHDATA1 /\ Len(s) > 1 /\ Len(s) = 2 + s[2]
    \/ s[1] = OP_PUSHDATA2 /\ Len(s) > 2 /\ Len(s) = 3 + s[2] + 256 * s[3]
    \/ /\ s[1] = OP_PUSHDATA4 /\ Len(s) > 4
       /\ s[5] = 0 /\ Len(s) = 5 + s[2] + 256 * s[3] + 65536 * s[4]

\* What a script interpreter skips as one branch not taken: the envelope can be
\* cut into instructions, all pushes but the last, which closes the branch.
InertEnvelope(e) ==
    /\ Len(e) > 6 /\ SubSeq(e, 1, 6) = OrdPrefix
    /\ e[Len(e)] = OP_ENDIF
    /\ \E cuts \in SUBSET (3 .. Len(e)) :
        /\ {3, Len(e)} \subseteq cuts
        /\ \A i, j \in cuts :
            (i < j /\ \A k \in cuts : k <= i \/ j <= k) => IsPushScript(SubSeq(e, i, j - 1))
=============================================================================
