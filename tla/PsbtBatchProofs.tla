--------------------------- MODULE PsbtBatchProofs ---------------------------
(***************************************************************************)
(* Theorems about PsbtBatch for any transactions, accounts, scripts,       *)
(* batches and bounds.  One inductive invariant, IInv, says what each      *)
(* source of evidence stands for and what verify has established of the    *)
(* entries it is done with.                                                *)
(***************************************************************************)
EXTENDS PsbtBatch, TLAPS

-----------------------------------------------------------------------------
(* Transactions outside the Snap only accumulate.                          *)

LEMMA OutpointOfOutput ==
    ASSUME NEW t \in TxIds, NEW o \in InputsOf(t), NEW txs, IsOutput(o, txs)
    PROVE  o \in OutputsOf(o.tx) /\ o.tx \in txs /\ o.tx \in TxIds
<1>1. Tx[t].inputs \in Seq([tx : TxIds, vout : Nat \ {0}])
  BY TxAssumption
<1>2. PICK i \in DOMAIN Tx[t].inputs : o = Tx[t].inputs[i]
  BY DEF InputsOf, Range
<1>3. o \in [tx : TxIds, vout : Nat \ {0}]
  <2> DEFINE S == [tx : TxIds, vout : Nat \ {0}]
  <2>1. Tx[t].inputs \in Seq(S)
    BY <1>1
  <2> HIDE DEF S
  <2>2. o \in S
    BY <1>2, <2>1
  <2> QED
    BY <2>2 DEF S
<1>4. o = [tx |-> o.tx, vout |-> o.vout]
  BY <1>3
<1> QED
  BY <1>3, <1>4 DEF IsOutput, OutputsOf

LEMMA OutputIsOutput ==
    ASSUME NEW t, NEW o \in OutputsOf(t)
    PROVE  o.tx = t /\ o.vout \in DOMAIN Tx[t].outputs
  BY DEF OutputsOf

LEMMA Accumulate ==
    ASSUME NEW m \in Nat, NEW n \in Nat, m <= n
    PROVE  ConfirmedAt(m) \subseteq ConfirmedAt(n) /\ SpentAt(m) \subseteq SpentAt(n)
<1>1. ConfirmedAt(m) \subseteq ConfirmedAt(n)
  BY DEF ConfirmedAt
<1> QED
  BY <1>1 DEF SpentAt

LEMMA ConfirmAppends ==
    ASSUME history \in Seq(TxIds), NEW t \in TxIds, history' = Append(history, t)
    PROVE  /\ Now \in Nat /\ Now' = Now + 1
           /\ \A n \in 0 .. Now : ConfirmedAt(n)' = ConfirmedAt(n) /\ SpentAt(n)' = SpentAt(n)
           /\ ConfirmedAt(Now)' = ConfirmedAt(Now) \cup {t}
           /\ SpentAt(Now)' = SpentAt(Now) \cup InputsOf(t)
<1>1. Now \in Nat /\ Now' = Now + 1
  BY DEF Now
<1>2. \A m \in 1 .. Now : history'[m] = history[m]
  BY DEF Now
<1>3. history'[Now + 1] = t
  BY DEF Now
<1>4. \A n \in 0 .. Now : ConfirmedAt(n)' = ConfirmedAt(n)
  <2> SUFFICES ASSUME NEW n \in 0 .. Now
               PROVE  {history'[m] : m \in 1 .. n} = {history[m] : m \in 1 .. n}
    BY DEF ConfirmedAt
  <2>1. 1 .. n \subseteq 1 .. Now
    BY <1>1
  <2> QED
    BY <1>2, <2>1
<1>5. \A n \in 0 .. Now : SpentAt(n)' = SpentAt(n)
  BY <1>4 DEF SpentAt
<1>6. ConfirmedAt(Now)' = ConfirmedAt(Now) \cup {t}
  <2>1. 1 .. Now + 1 = (1 .. Now) \cup {Now + 1}
    BY <1>1
  <2> QED
    BY <1>1, <1>2, <1>3, <2>1 DEF ConfirmedAt
<1>7. SpentAt(Now)' = SpentAt(Now) \cup InputsOf(t)
  BY <1>6 DEF SpentAt
<1> QED
  BY <1>1, <1>4, <1>5, <1>6, <1>7

-----------------------------------------------------------------------------
(* The inductive invariant.                                                *)

Floor == IF rowsAt < requestedAt THEN rowsAt ELSE requestedAt

\* Only outputs of confirmed transactions have been spent.
SpentWereOutputs ==
    \A n \in 0 .. Now : \A o \in SpentAt(n) : o.tx \in ConfirmedAt(n)

\* The request that is past preparation was accepted for its key set.
WasAccepted ==
    /\ stage \in {"context", "verify", "dialog", "signed"} => Accepted(account, batch)
    /\ stage = "verify" => entry \in DOMAIN batch

\* What the evidence of an outpoint means.
EvidenceStands ==
    /\ \A o \in rows : IsOutput(o, ConfirmedAt(rowsAt)) /\ o \notin SpentAt(rowsAt)
    /\ \A o \in found : IsOutput(o, ConfirmedAt(Now))
    /\ \A o \in unspent : o \notin SpentAt(requestedAt)

\* Entries that verify has finished with.
Done == IF Approvable THEN DOMAIN batch
        ELSE IF stage = "verify" THEN 1 .. entry - 1 ELSE {}

OutputsBefore(k) == UNION {OutputsOf(batch[j].tx) : j \in 1 .. k - 1}

\* #batchPrevouts holds outputs of entries before the one being verified.
KnownIsEarlier ==
    /\ stage \in {"idle", "resolve", "context"} =>
            entry = 1 /\ known = {} /\ unspent = {} /\ signatures = {}
    /\ stage = "verify" => known \subseteq OutputsBefore(entry)

\* What verify established of an entry.
EntryVerified ==
    \A k \in Done :
        /\ \A i \in DOMAIN batch[k].claims : Matches(batch[k], i)
        /\ \A o \in InputsOf(batch[k].tx) :
            /\ IsOutput(o, ConfirmedAt(Now)) \/ o \in OutputsBefore(k)
            /\ o \notin SpentAt(Floor)

SignedAsRequested ==
    /\ signatures # {} => stage = "signed"
    /\ \A s \in signatures : s.entry \in DOMAIN batch /\ s.input \in DOMAIN batch[s.entry].sign

IInv ==
    /\ TypeOK
    /\ SpentWereOutputs
    /\ WasAccepted
    /\ EvidenceStands
    /\ KnownIsEarlier
    /\ EntryVerified
    /\ SignedAsRequested

-----------------------------------------------------------------------------
(* The initial states.                                                     *)

LEMMA IInvInit == Init => IInv
<1> SUFFICES ASSUME Init PROVE IInv
  OBVIOUS
<1>1. Now = 0
  BY DEF Init, Now
<1>2. TypeOK
  BY <1>1, RequestAssumption DEF Init, TypeOK, Stages, Approvable
<1>3. SpentWereOutputs
  <2> SUFFICES ASSUME NEW n \in 0 .. Now, NEW o \in SpentAt(n) PROVE o.tx \in ConfirmedAt(n)
    BY DEF SpentWereOutputs
  <2>1. ConfirmedAt(n) = Base
    BY <1>1 DEF ConfirmedAt
  <2>2. PICK t \in Base : o \in InputsOf(t)
    BY <2>1 DEF SpentAt
  <2> QED
    BY <2>1, <2>2, TxAssumption
<1> QED
  BY <1>2, <1>3
  DEF Init, IInv, WasAccepted, EvidenceStands, KnownIsEarlier, EntryVerified, Done,
      Approvable, SignedAsRequested

-----------------------------------------------------------------------------
(* Steps that touch neither the request nor its evidence.                  *)

LEMMA IInvConfirm ==
    ASSUME IInv, NEW t \in TxIds, Confirm(t)
    PROVE  IInv'
<1> USE DEF IInv
<1>0. /\ UNCHANGED <<active, stage, prepared, context, signatures>>
      /\ history' = Append(history, t) /\ history \in Seq(TxIds)
  BY DEF Confirm, TypeOK
<1>1. /\ Now \in Nat /\ Now' = Now + 1
      /\ \A n \in 0 .. Now : ConfirmedAt(n)' = ConfirmedAt(n) /\ SpentAt(n)' = SpentAt(n)
      /\ ConfirmedAt(Now)' = ConfirmedAt(Now) \cup {t}
      /\ SpentAt(Now)' = SpentAt(Now) \cup InputsOf(t)
  BY <1>0, ConfirmAppends
<1>2. requestedAt \in 0 .. Now /\ rowsAt \in 0 .. Now /\ Floor \in 0 .. Now
  BY DEF TypeOK, Floor
<1>3. TypeOK'
  <2>1. history' \in Seq(TxIds) /\ Now' <= MaxHistory
    BY <1>0, <1>1, RequestAssumption DEF Confirm
  <2>2. requestedAt' \in 0 .. Now' /\ rowsAt' \in 0 .. Now'
    BY <1>0, <1>1, <1>2 DEF prepared, context
  <2> QED
    BY <1>0, <2>1, <2>2 DEF TypeOK, prepared, context, Approvable
<1>4. SpentWereOutputs'
  <2> SUFFICES ASSUME NEW n \in 0 .. Now + 1, NEW o \in SpentAt(n)'
               PROVE  o.tx \in ConfirmedAt(n)'
    BY <1>1 DEF SpentWereOutputs
  <2>1. CASE n \in 0 .. Now
    BY <1>1, <2>1 DEF SpentWereOutputs
  <2>2. CASE n = Now + 1
    <3>1. n = Now' /\ o \in SpentAt(Now) \cup InputsOf(t)
      BY <1>1, <2>2
    <3>2. CASE o \in SpentAt(Now)
      BY <1>1, <2>2, <3>1, <3>2 DEF SpentWereOutputs
    <3>3. CASE o \in InputsOf(t)
      BY <1>1, <2>2, <3>1, <3>3 DEF Confirm, IsOutput
    <3> QED
      BY <3>1, <3>2, <3>3
  <2> QED
    BY <1>1, <2>1, <2>2
<1>5. EvidenceStands'
  <2>1. ConfirmedAt(rowsAt)' = ConfirmedAt(rowsAt) /\ SpentAt(rowsAt)' = SpentAt(rowsAt)
    BY <1>0, <1>1, <1>2 DEF context
  <2>2. SpentAt(requestedAt)' = SpentAt(requestedAt)
    BY <1>0, <1>1, <1>2 DEF prepared
  <2> QED
    BY <1>0, <1>1, <2>1, <2>2 DEF EvidenceStands, IsOutput, context
<1>6. EntryVerified'
  <2>1. Floor' = Floor /\ Done' = Done /\ batch' = batch
    BY <1>0 DEF Floor, Done, Approvable, prepared, context
  <2>2. SpentAt(Floor)' = SpentAt(Floor)
    BY <1>1, <1>2, <2>1
  <2>3. \A o : IsOutput(o, ConfirmedAt(Now)) => IsOutput(o, ConfirmedAt(Now))'
    BY <1>1 DEF IsOutput
  <2> QED
    BY <2>1, <2>2, <2>3 DEF EntryVerified, OutputsBefore, Matches
<1> QED
  BY <1>0, <1>3, <1>4, <1>5, <1>6
  DEF WasAccepted, KnownIsEarlier, SignedAsRequested, OutputsBefore, prepared, context

\* With the history unchanged, what depends on it alone is unchanged.
LEMMA SameHistory ==
    ASSUME UNCHANGED history
    PROVE  /\ Now' = Now
           /\ \A n : ConfirmedAt(n)' = ConfirmedAt(n) /\ SpentAt(n)' = SpentAt(n)
<1>1. Now' = Now /\ \A n : ConfirmedAt(n)' = ConfirmedAt(n)
  BY DEF Now, ConfirmedAt
<1> QED
  BY <1>1 DEF SpentAt

\* Steps that leave the entries and the evidence of verify alone.
LEMMA IInvQuiet ==
    ASSUME IInv, UNCHANGED <<vars>> \/ \E a \in Accounts : ChangeAccount(a)
    PROVE  IInv'
<1>1. /\ UNCHANGED <<history, stage, prepared, context, signatures>>
      /\ active' \in Accounts
  BY DEF IInv, TypeOK, vars, world, ChangeAccount
<1>2. /\ Now' = Now
      /\ \A n : ConfirmedAt(n)' = ConfirmedAt(n) /\ SpentAt(n)' = SpentAt(n)
  BY <1>1, SameHistory
<1>3. TypeOK'
  BY <1>1, <1>2 DEF IInv, TypeOK, prepared, context, Approvable
<1>4. SpentWereOutputs' /\ EvidenceStands'
  BY <1>1, <1>2 DEF IInv, SpentWereOutputs, EvidenceStands, IsOutput, prepared, context
<1>5. Floor' = Floor /\ Done' = Done /\ batch' = batch
  BY <1>1 DEF Floor, Done, Approvable, prepared, context
<1>6. EntryVerified'
  BY <1>2, <1>5 DEF IInv, EntryVerified, OutputsBefore, Matches, IsOutput
<1> QED
  BY <1>1, <1>3, <1>4, <1>6
  DEF IInv, WasAccepted, KnownIsEarlier, SignedAsRequested, OutputsBefore, prepared, context

\* Before verify there are no entries done with and no evidence of the batch.
LEMMA IInvEarly ==
    ASSUME IInv, Receive \/ Prepare \/ CreateContext \/ Fail
    PROVE  IInv'
<1>1. history' = history /\ active' = active /\ batch' = batch
  BY DEF Receive, Prepare, CreateContext, Fail, world, prepared
<1>2. /\ Now' = Now /\ Now \in Nat
      /\ \A n : ConfirmedAt(n)' = ConfirmedAt(n) /\ SpentAt(n)' = SpentAt(n)
  BY <1>1, SameHistory DEF IInv, TypeOK, Now
<1>3. SpentWereOutputs'
  BY <1>2 DEF IInv, SpentWereOutputs
<1>4. requestedAt \in Nat /\ rowsAt \in Nat /\ requestedAt <= Now /\ rowsAt <= Now
  BY <1>2 DEF IInv, TypeOK
<1>5. /\ stage' \in Stages /\ ~Approvable' /\ Done' = {}
      /\ entry' = entry /\ known' = known /\ found' = found /\ unspent' = unspent
      /\ signatures' = signatures /\ signatures = {}
  <2>1. CASE CreateContext
    <3>1. entry = 1 /\ 1 .. entry - 1 = {} /\ signatures = {}
      BY <2>1 DEF CreateContext, IInv, KnownIsEarlier
    <3> QED
      BY <2>1, <3>1 DEF CreateContext, Done, Approvable, Stages
  <2> QED
    BY <2>1
    DEF Receive, Prepare, Fail, context, Done, Approvable, Stages, IInv, SignedAsRequested
<1>6. EntryVerified' /\ SignedAsRequested'
  BY <1>5 DEF EntryVerified, SignedAsRequested
<1>7. CASE Receive
  <2>1. requestedAt' = Now /\ UNCHANGED <<account, context>> /\ stage = "idle" /\ stage' = "resolve"
    BY <1>7 DEF Receive
  <2>2. TypeOK'
    BY <1>1, <1>2, <1>5, <2>1 DEF IInv, TypeOK, context
  <2>3. EvidenceStands'
    BY <1>2, <1>5, <2>1 DEF IInv, EvidenceStands, KnownIsEarlier, IsOutput, context
  <2> QED
    BY <1>1, <1>3, <1>5, <1>6, <2>1, <2>2, <2>3 DEF IInv, WasAccepted, KnownIsEarlier, context
<1>8. CASE Prepare
  <2>1. /\ UNCHANGED <<requestedAt, context>> /\ account' = active /\ stage = "resolve"
        /\ stage' = IF Accepted(active, batch) THEN "context" ELSE "failed"
    BY <1>8 DEF Prepare
  <2>2. TypeOK'
    BY <1>1, <1>2, <1>5, <2>1 DEF IInv, TypeOK, context
  <2>3. EvidenceStands'
    BY <1>2, <1>5, <2>1 DEF IInv, EvidenceStands, IsOutput, context
  <2>4. WasAccepted'
    BY <1>1, <2>1 DEF WasAccepted, Accepted
  <2> QED
    BY <1>1, <1>3, <1>5, <1>6, <2>1, <2>2, <2>3, <2>4 DEF IInv, KnownIsEarlier, context
<1>9. CASE CreateContext
  <2>1. /\ UNCHANGED <<requestedAt, account>> /\ stage = "context" /\ stage' = "verify"
        /\ rowsAt' \in 0 .. Now
    BY <1>9 DEF CreateContext, prepared
  <2>2. \A o \in rows' : \E t \in ConfirmedAt(rowsAt') : o \in OutputsOf(t) /\ o \notin SpentAt(rowsAt')
    BY <1>9 DEF CreateContext
  <2>3. ConfirmedAt(rowsAt') \subseteq TxIds
    <3>1. \A m \in 1 .. rowsAt' : history[m] \in TxIds
      BY <2>1 DEF IInv, TypeOK, Now
    <3> QED
      BY <3>1, TxAssumption DEF ConfirmedAt
  <2>4. rows' \subseteq Outpoints
    BY <2>2, <2>3 DEF Outpoints
  <2>5. TypeOK'
    BY <1>1, <1>2, <1>5, <2>1, <2>4 DEF IInv, TypeOK
  <2>6. \A o \in rows' : IsOutput(o, ConfirmedAt(rowsAt')) /\ o \notin SpentAt(rowsAt')
    BY <2>2, OutputIsOutput DEF IsOutput
  <2>7. ConfirmedAt(rowsAt)' = ConfirmedAt(rowsAt') /\ SpentAt(rowsAt)' = SpentAt(rowsAt')
    BY <1>1 DEF ConfirmedAt, SpentAt
  <2>8. EvidenceStands'
    BY <1>2, <1>5, <2>1, <2>6, <2>7 DEF IInv, EvidenceStands, IsOutput
  <2>9. WasAccepted' /\ KnownIsEarlier'
    BY <1>1, <1>5, <2>1, RequestAssumption
    DEF IInv, TypeOK, WasAccepted, KnownIsEarlier, Accepted
  <2> QED
    BY <1>3, <1>6, <2>5, <2>8, <2>9 DEF IInv
<1>10. CASE Fail
  <2>1. UNCHANGED <<prepared, context>> /\ stage' = "failed"
    BY <1>10 DEF Fail
  <2>2. TypeOK'
    BY <1>1, <1>2, <1>5, <2>1 DEF IInv, TypeOK, context, prepared
  <2>3. EvidenceStands'
    BY <1>2, <1>5, <2>1 DEF IInv, EvidenceStands, IsOutput, context, prepared
  <2> QED
    BY <1>3, <1>6, <2>1, <2>2, <2>3 DEF IInv, WasAccepted, KnownIsEarlier
<1> QED
  BY <1>7, <1>8, <1>9, <1>10

\* An answer of Esplora adds evidence, of the moment it was given.
LEMMA IInvFetch ==
    ASSUME IInv, Fetch
    PROVE  IInv'
<1>1. PICK o \in InputsOf(batch[entry].tx) : FetchTx(o) \/ FetchSpend(o)
  BY DEF Fetch
<1>2. /\ UNCHANGED <<world, stage, prepared, rowsAt, rows, known, entry, signatures>>
      /\ stage = "verify"
  BY <1>1 DEF FetchTx, FetchSpend, Asked
<1>3. /\ Now' = Now /\ Now \in Nat
      /\ \A n : ConfirmedAt(n)' = ConfirmedAt(n) /\ SpentAt(n)' = SpentAt(n)
  BY <1>2, SameHistory DEF world, IInv, TypeOK, Now
<1>4. found' \subseteq Outpoints /\ \A p \in found' : IsOutput(p, ConfirmedAt(Now))
  <2>1. CASE FetchTx(o)
    <3>1. IsOutput(o, ConfirmedAt(Now)) /\ found' = found \cup {o}
      BY <2>1 DEF FetchTx
    <3>2. batch[entry].tx \in TxIds
      BY <1>2, RequestAssumption DEF IInv, TypeOK, WasAccepted
    <3>3. o \in Outpoints
      BY <3>1, <3>2, OutpointOfOutput DEF Outpoints
    <3> QED
      BY <3>1, <3>3 DEF IInv, TypeOK, EvidenceStands
  <2> QED
    BY <1>1, <2>1 DEF FetchSpend, IInv, TypeOK, EvidenceStands
<1>5. \A p \in unspent' : p \notin SpentAt(requestedAt)
  <2>1. SpentAt(requestedAt) \subseteq SpentAt(Now)
    BY <1>3, Accumulate DEF IInv, TypeOK
  <2> QED
    BY <1>1, <2>1 DEF FetchTx, FetchSpend, IInv, EvidenceStands
<1>6. Floor' = Floor /\ Done' = Done /\ batch' = batch
  BY <1>2 DEF Floor, Done, Approvable, prepared
<1>7. TypeOK'
  BY <1>2, <1>3, <1>4 DEF IInv, TypeOK, world, prepared, Approvable
<1>8. SpentWereOutputs' /\ EvidenceStands'
  BY <1>2, <1>3, <1>4, <1>5
  DEF IInv, SpentWereOutputs, EvidenceStands, IsOutput, prepared
<1>9. EntryVerified'
  BY <1>3, <1>6 DEF IInv, EntryVerified, OutputsBefore, Matches, IsOutput
<1> QED
  BY <1>2, <1>7, <1>8, <1>9
  DEF IInv, WasAccepted, KnownIsEarlier, SignedAsRequested, OutputsBefore, prepared

-----------------------------------------------------------------------------
(* verify.                                                                 *)

\* An output of an entry that verify is done with was not spent at the floor:
\* the entry has an input that was not, so it was not confirmed itself.
LEMMA EarlierOutputUnspent ==
    ASSUME IInv, NEW j \in Done, NEW o \in OutputsOf(batch[j].tx), Done \subseteq DOMAIN batch,
           Accepted(account, batch)
    PROVE  o \notin SpentAt(Floor)
<1>1. Floor \in 0 .. Now
  BY DEF IInv, TypeOK, Floor
<1>2. o.tx = batch[j].tx
  BY OutputIsOutput
<1>3. PICK i \in DOMAIN batch[j].sign : TRUE
  BY DEF Accepted, OwnsSignedInputs
<1>4. i \in DOMAIN Tx[batch[j].tx].inputs
  BY <1>3, RequestAssumption DEF Accepted, OwnsSignedInputs, IInv, TypeOK
<1>5. Tx[batch[j].tx].inputs[i] \in InputsOf(batch[j].tx)
  BY <1>4 DEF InputsOf, Range
<1>6. Tx[batch[j].tx].inputs[i] \notin SpentAt(Floor)
  BY <1>5 DEF IInv, EntryVerified
<1>7. batch[j].tx \notin ConfirmedAt(Floor)
  BY <1>5, <1>6 DEF SpentAt
<1> QED
  BY <1>1, <1>2, <1>7 DEF IInv, SpentWereOutputs

LEMMA IInvVerify ==
    ASSUME IInv, VerifyEntry
    PROVE  IInv'
<1> DEFINE e == batch[entry]
<1>1. /\ stage = "verify" /\ known' = known \cup OutputsOf(e.tx)
      /\ UNCHANGED <<world, prepared, rowsAt, rows, found, unspent, signatures>>
      /\ \A i \in DOMAIN e.claims : HasEvidence(Tx[e.tx].inputs[i]) /\ Matches(e, i)
  BY DEF VerifyEntry
<1>2. /\ Now' = Now /\ Now \in Nat
      /\ \A n : ConfirmedAt(n)' = ConfirmedAt(n) /\ SpentAt(n)' = SpentAt(n)
  BY <1>1, SameHistory DEF world, IInv, TypeOK, Now
<1>3. /\ entry \in DOMAIN batch /\ Accepted(account, batch) /\ e.tx \in TxIds
      /\ DOMAIN batch = 1 .. Len(batch) /\ Len(batch) \in Nat /\ Done = 1 .. entry - 1
      /\ DOMAIN e.claims = DOMAIN Tx[e.tx].inputs
  BY <1>1, RequestAssumption DEF IInv, TypeOK, WasAccepted, Done, Approvable
<1>4. /\ Done' = 1 .. entry /\ stage' \in {"verify", "dialog"}
      /\ stage' = "verify" => entry' = entry + 1 /\ entry' \in DOMAIN batch
      /\ entry' \in Nat \ {0}
  <2>1. CASE entry = Len(batch)
    BY <1>1, <1>3, <2>1 DEF VerifyEntry, Done, Approvable, prepared
  <2>2. CASE entry # Len(batch)
    BY <1>1, <1>3, <2>2 DEF VerifyEntry, Done, Approvable, prepared
  <2> QED
    BY <2>1, <2>2
<1>5. batch' = batch /\ account' = account /\ Floor' = Floor
  BY <1>1 DEF prepared, Floor
<1>6. /\ Floor \in Nat /\ rowsAt \in Nat /\ requestedAt \in Nat
      /\ Floor <= rowsAt /\ Floor <= requestedAt /\ rowsAt <= Now
  BY <1>2 DEF IInv, TypeOK, Floor
<1>7. ASSUME NEW o \in InputsOf(e.tx)
      PROVE  /\ IsOutput(o, ConfirmedAt(Now)) \/ o \in OutputsBefore(entry)
             /\ o \notin SpentAt(Floor)
  <2>1. HasEvidence(o)
    BY <1>1, <1>3, <1>7 DEF InputsOf, Range
  <2>2. CASE o \in rows
    <3>1. IsOutput(o, ConfirmedAt(rowsAt)) /\ o \notin SpentAt(rowsAt)
      BY <2>2 DEF IInv, EvidenceStands
    <3>2. ConfirmedAt(rowsAt) \subseteq ConfirmedAt(Now) /\ SpentAt(Floor) \subseteq SpentAt(rowsAt)
      BY <1>2, <1>6, Accumulate
    <3> QED
      BY <3>1, <3>2 DEF IsOutput
  <2>3. CASE o \in known
    <3>1. o \in OutputsBefore(entry)
      BY <1>1, <2>3 DEF IInv, KnownIsEarlier
    <3>2. PICK j \in 1 .. entry - 1 : o \in OutputsOf(batch[j].tx)
      BY <3>1 DEF OutputsBefore
    <3>3. j \in Done /\ Done \subseteq DOMAIN batch
      BY <1>3, <3>2
    <3>4. o \notin SpentAt(Floor)
      BY <1>3, <3>2, <3>3, EarlierOutputUnspent
    <3> QED
      BY <3>1, <3>4
  <2>4. CASE o \in found /\ o \in unspent
    <3>1. IsOutput(o, ConfirmedAt(Now)) /\ o \notin SpentAt(requestedAt)
      BY <2>4 DEF IInv, EvidenceStands
    <3>2. SpentAt(Floor) \subseteq SpentAt(requestedAt)
      BY <1>6, Accumulate
    <3> QED
      BY <3>1, <3>2
  <2> QED
    BY <2>1, <2>2, <2>3, <2>4 DEF HasEvidence
<1>8. EntryVerified'
  <2> SUFFICES ASSUME NEW k \in 1 .. entry
               PROVE  /\ \A i \in DOMAIN batch[k].claims : Matches(batch[k], i)
                      /\ \A o \in InputsOf(batch[k].tx) :
                           /\ IsOutput(o, ConfirmedAt(Now)) \/ o \in OutputsBefore(k)
                           /\ o \notin SpentAt(Floor)
    BY <1>2, <1>4, <1>5 DEF EntryVerified, OutputsBefore, Matches, IsOutput
  <2>1. CASE k = entry
    BY <1>1, <1>7, <2>1
  <2>2. CASE k # entry
    <3>1. k \in Done
      BY <1>3, <2>2
    <3> QED
      BY <3>1 DEF IInv, EntryVerified
  <2> QED
    BY <2>1, <2>2
<1>9. TypeOK'
  <2>1. known' \subseteq Outpoints
    BY <1>1, <1>3 DEF IInv, TypeOK, Outpoints
  <2>2. \A k \in DOMAIN batch : FeeSats(batch[k]) >= 0
    BY <1>3 DEF Accepted, FeeValid
  <2> QED
    BY <1>1, <1>2, <1>4, <2>1, <2>2
    DEF IInv, TypeOK, world, prepared, Stages
<1>10. KnownIsEarlier'
  <2>1. ASSUME stage' = "verify" PROVE known' \subseteq OutputsBefore(entry + 1)
    <3>1. known \subseteq OutputsBefore(entry)
      BY <1>1 DEF IInv, KnownIsEarlier
    <3>2. OutputsBefore(entry) \subseteq OutputsBefore(entry + 1)
      BY <1>3 DEF OutputsBefore
    <3>3. OutputsOf(e.tx) \subseteq OutputsBefore(entry + 1)
      BY <1>3 DEF OutputsBefore
    <3> QED
      BY <1>1, <3>1, <3>2, <3>3
  <2> QED
    BY <1>4, <1>5, <2>1 DEF KnownIsEarlier, OutputsBefore
<1>11. WasAccepted'
  BY <1>3, <1>4, <1>5 DEF WasAccepted
<1>12. SpentWereOutputs' /\ EvidenceStands'
  BY <1>1, <1>2 DEF IInv, SpentWereOutputs, EvidenceStands, IsOutput, prepared
<1>13. SignedAsRequested'
  BY <1>1, <1>5 DEF IInv, SignedAsRequested
<1> QED
  BY <1>8, <1>9, <1>10, <1>11, <1>12, <1>13 DEF IInv

LEMMA IInvSign ==
    ASSUME IInv, SignBatch
    PROVE  IInv'
<1>1. /\ UNCHANGED <<world, prepared, context>> /\ stage = "dialog" /\ stage' = "signed"
      /\ signatures' = UNION {{[entry |-> k, input |-> i] : i \in DOMAIN batch[k].sign} :
                                k \in DOMAIN batch}
  BY DEF SignBatch
<1>2. /\ Now' = Now
      /\ \A n : ConfirmedAt(n)' = ConfirmedAt(n) /\ SpentAt(n)' = SpentAt(n)
  BY <1>1, SameHistory DEF world
<1>3. \A s \in signatures' : s.entry \in DOMAIN batch /\ s.input \in DOMAIN batch[s.entry].sign
  BY <1>1
<1>4. \A k \in DOMAIN batch : DOMAIN batch[k].sign \subseteq DOMAIN batch[k].claims
  BY <1>1 DEF IInv, WasAccepted, Accepted, OwnsSignedInputs
<1>5. TypeOK'
  BY <1>1, <1>2, <1>3, <1>4
  DEF IInv, TypeOK, world, prepared, context, Approvable, Stages
<1>6. Floor' = Floor /\ Done' = Done /\ batch' = batch
  BY <1>1 DEF Floor, Done, Approvable, prepared, context
<1>7. EntryVerified'
  BY <1>2, <1>6 DEF IInv, EntryVerified, OutputsBefore, Matches, IsOutput
<1>8. SpentWereOutputs' /\ EvidenceStands'
  BY <1>1, <1>2 DEF IInv, SpentWereOutputs, EvidenceStands, IsOutput, prepared, context
<1> QED
  BY <1>1, <1>3, <1>5, <1>7, <1>8
  DEF IInv, WasAccepted, KnownIsEarlier, SignedAsRequested, prepared, context

\* The inductive invariant holds in every reachable state.
THEOREM Invariance == Spec => []IInv
<1>1. Init => IInv
  BY IInvInit
<1>2. IInv /\ [Next]_vars => IInv'
  BY IInvConfirm, IInvQuiet, IInvEarly, IInvFetch, IInvVerify, IInvSign DEF Next
<1> QED
  BY <1>1, <1>2, PTL DEF Spec

-----------------------------------------------------------------------------
(* What the invariant says of a request that is shown or signed.           *)

LEMMA ShownEntry ==
    ASSUME IInv, Approvable, NEW k \in DOMAIN batch
    PROVE  /\ k \in Done /\ Accepted(account, batch)
           /\ DOMAIN batch[k].claims = DOMAIN Tx[batch[k].tx].inputs
           /\ \A i \in DOMAIN batch[k].claims :
                batch[k].claims[i] = Output(Tx[batch[k].tx].inputs[i])
  BY RequestAssumption DEF IInv, TypeOK, WasAccepted, Done, Approvable, EntryVerified, Matches

\* Every state is well typed, and no accepted transaction has a negative fee.
THEOREM BatchTypeCorrect == Spec => []TypeOK
  BY Invariance, PTL DEF IInv

\* The fee a dialog shows is the fee the transaction pays (summarizePsbt,
\* verify), for any chain, account and batch.
THEOREM FeesAreTrue == Spec => []ShownIsTrue
<1>1. IInv => ShownIsTrue
  <2> SUFFICES ASSUME IInv, Approvable, NEW k \in DOMAIN batch
               PROVE  FeeSats(batch[k]) = TrueFee(batch[k].tx)
    BY DEF ShownIsTrue
  <2>1. [i \in DOMAIN batch[k].claims |-> batch[k].claims[i].value]
            = [i \in DOMAIN Tx[batch[k].tx].inputs |-> Output(Tx[batch[k].tx].inputs[i]).value]
    BY ShownEntry
  <2> QED
    BY <2>1 DEF FeeSats, TrueFee
<1> QED
  BY <1>1, Invariance, PTL

\* Only outputs the signing account really owns under the address the request
\* named are signed for (validateSignedInput, verify).
THEOREM SignaturesOnOwnOutputs == Spec => []SignsOnlyOwn
<1>1. IInv => SignsOnlyOwn
  <2> SUFFICES ASSUME IInv, NEW s \in signatures
               PROVE  Output(Tx[batch[s.entry].tx].inputs[s.input]).script
                        \in Signable[account][batch[s.entry].sign[s.input]]
    BY DEF SignsOnlyOwn
  <2>1. Approvable /\ s.entry \in DOMAIN batch /\ s.input \in DOMAIN batch[s.entry].sign
    BY DEF IInv, SignedAsRequested, Approvable
  <2>2. /\ s.input \in DOMAIN batch[s.entry].claims
        /\ batch[s.entry].claims[s.input].script
                \in Signable[account][batch[s.entry].sign[s.input]]
    BY <2>1, ShownEntry DEF Accepted, OwnsSignedInputs
  <2> QED
    BY <2>1, <2>2, ShownEntry
<1> QED
  BY <1>1, Invariance, PTL

\* A batch that reaches its dialog can confirm as a whole, in its own order
\* (assertUniqueBatchOutpoints, rememberVerifiedOutputs).
THEOREM BatchesConfirmInOrder == Spec => []BatchConfirmsInOrder
<1>1. IInv => BatchConfirmsInOrder
  <2> SUFFICES ASSUME IInv, Approvable, NEW k \in DOMAIN batch
               PROVE  LET earlier == {batch[j].tx : j \in 1 .. k - 1} IN
                      /\ \A o \in InputsOf(batch[k].tx) : IsOutput(o, ConfirmedAt(Now) \cup earlier)
                      /\ InputsOf(batch[k].tx) \cap UNION {InputsOf(t) : t \in earlier} = {}
    BY DEF BatchConfirmsInOrder
  <2> DEFINE earlier == {batch[j].tx : j \in 1 .. k - 1}
  <2>1. DOMAIN batch = 1 .. Len(batch) /\ Len(batch) \in Nat
    BY RequestAssumption DEF IInv, TypeOK
  <2>2. ASSUME NEW o \in InputsOf(batch[k].tx)
        PROVE  IsOutput(o, ConfirmedAt(Now) \cup earlier)
    <3>1. IsOutput(o, ConfirmedAt(Now)) \/ o \in OutputsBefore(k)
      BY <2>2, ShownEntry DEF IInv, EntryVerified
    <3>2. ASSUME o \in OutputsBefore(k) PROVE o.tx \in earlier /\ o.vout \in DOMAIN Tx[o.tx].outputs
      BY <3>2, OutputIsOutput DEF OutputsBefore
    <3> QED
      BY <3>1, <3>2 DEF IsOutput
  <2>3. ASSUME NEW j \in 1 .. k - 1
        PROVE  InputsOf(batch[k].tx) \cap InputsOf(batch[j].tx) = {}
    <3>1. j \in DOMAIN batch /\ j # k
      BY <2>1, <2>3
    <3> QED
      BY <3>1, ShownEntry DEF Accepted, NoSharedOutpoint
  <2> QED
    BY <2>2, <2>3
<1> QED
  BY <1>1, Invariance, PTL

\* Nothing shown or signed spends an output that was spent when the request
\* was made or its inventory observed (assertUnspent); for an output of an
\* earlier entry this follows from the inputs of that entry.
THEOREM InputsUnspent == Spec => []UnspentAtRequest
<1>1. IInv => UnspentAtRequest
  <2> SUFFICES ASSUME IInv, Approvable, NEW k \in DOMAIN batch
               PROVE  InputsOf(batch[k].tx) \cap SpentAt(Floor) = {}
    BY DEF UnspentAtRequest, Floor
  <2> QED
    BY ShownEntry DEF IInv, EntryVerified
<1> QED
  BY <1>1, Invariance, PTL
=============================================================================
