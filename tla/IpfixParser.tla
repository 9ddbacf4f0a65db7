---------------------------- MODULE IpfixParser ----------------------------
(* The parser of the concentrator library: the template buffer and the     *)
(* loops that cut template sets and data sets into records                 *)
(* (src/concentrator/rcvIpfix.c, templateBuffer.c).  A set's payload is a  *)
(* sequence of octets in base Base (256 in the code); the field length     *)
(* 65535 and the length octet 255 are the largest 16-bit and 8-bit values. *)
(*                                                                         *)
(* The exporters send whatever the protocol allows of the chosen templates:*)
(* scopes and fields of either kind of length, long and short values,      *)
(* padding, a withdrawal before a template in one set.  The code reads not *)
(* all of it: two octets of length are taken in host order, here little    *)
(* endian, but by one loop (rcvIpfix.c:387, 528, 544, 594), the test of a  *)
(* scope's length is inverted (522), padding of options and data records   *)
(* passes for a record (517, 583), a withdrawal is shorter than the header *)
(* of options and data templates.  All of that is here as the code does    *)
(* it; Readable and garbled say what is left that the callbacks can trust. *)
EXTENDS Integers, Sequences, FiniteSets, SequencesExt

CONSTANTS Sources,      \* observation domains: the source id of a header
          TemplateIds,  \* template ids in use
          Base,         \* values of an octet
          Specs,        \* template records the exporters send
          Values(_),    \* the values a field of that length may carry
          MaxRecords,   \* bound: records of one data set
          Paddings,     \* bound: octets of padding behind them
          MaxSets       \* bound: sets received

VARIABLES
  templates,  \* templateBuffer: the list of BufferedTemplates, head first
  set,        \* the set being processed, or NoSet
  record,     \* octets of its payload already consumed
  got,        \* records handed to the record callback, for this set
  live,       \* templates announced to the callbacks and not destroyed since
  message,    \* header of the message being processed, or "none"
  sent,       \* what each source last announced for each id
  want,       \* the records encoded in this set
  sets,       \* sets received
  garbled     \* a template set was sent that is not read as it was meant

vars == <<templates, set, record, got, live, message, sent, want, sets, garbled>>

LongLength == Base - 1           \* 255: the length follows in two octets
Variable == Base * Base - 1      \* 65535: IPFIX's variable length
NoSet == [id |-> 0, kind |-> "none", octets |-> <<>>]
NoMessage == [source |-> "none", version |-> 0]
Unsent == [kind |-> "none"]
Kinds == {"template", "options", "data"}

-----------------------------------------------------------------------------
(* What an exporter puts on the wire. *)
U16(n) == <<n \div Base, n % Base>>
FieldOctets(f) == <<IF f.enterprise THEN 1 ELSE 0, 0>> \o U16(f.length)
                  \o IF f.enterprise THEN <<0, 1, 1, 2>> ELSE <<>>
FieldsOctets(fs) == FlattenSeq([i \in DOMAIN fs |-> FieldOctets(fs[i])])
ValueOctets(f, v) ==
  IF f.length # Variable THEN v
  ELSE IF Len(v) < LongLength THEN <<Len(v)>> \o v
  ELSE <<LongLength>> \o U16(Len(v)) \o v
RecordOctets(fs, r) == FlattenSeq([i \in DOMAIN fs |-> ValueOctets(fs[i], r[i])])
TemplateOctets(id, s) ==
  U16(id)
  \o (CASE s.kind = "template" -> U16(Len(s.fields))
        [] s.kind = "options" -> U16(Len(s.scopes) + Len(s.fields)) \o U16(Len(s.scopes))
        [] s.kind = "data" -> U16(Len(s.fields)) \o U16(Len(s.data)) \o U16(0))
  \o FieldsOctets(s.scopes) \o FieldsOctets(s.fields) \o FieldsOctets(s.data)
  \o RecordOctets(s.data, s.values)
Layout(s) == s.scopes \o s.fields
Varies(s) == \E i \in DOMAIN Layout(s) : Layout(s)[i].length = Variable
(* Values whose length does not go into one octet. *)
LongValues(fs, r) == \E i \in DOMAIN fs : fs[i].length = Variable /\ Len(r[i]) >= LongLength

-----------------------------------------------------------------------------
(* The parser's reading of it; what it would read behind a set is not the  *)
(* set's (0 here, the next set or rubbish in the code).                    *)
Octet(octets, i) == IF i \in DOMAIN octets THEN octets[i] ELSE 0
ntohs(octets, at) == Octet(octets, at + 1) * Base + Octet(octets, at + 2)

(* A loop over field specifiers: the FieldInfos, the sum of their lengths  *)
(* and where the reading stopped.                                          *)
ReadFields(octets, at, count) ==
  FoldLeft(LAMBDA acc, i :
             LET length == ntohs(octets, acc.at + 2)
             IN [info |-> Append(acc.info, [length |-> length, offset |-> acc.sum,
                                            isVariableLength |-> length = Variable]),
                 sum |-> acc.sum + length,
                 at |-> acc.at + IF Octet(octets, acc.at + 1) = 1 THEN 8 ELSE 4],
           [info |-> <<>>, sum |-> 0, at |-> at], [i \in 1..count |-> i])

(* The length in two octets: one loop converts it, for template sets.      *)
HostOrder(octets, at) == Octet(octets, at + 1) + Octet(octets, at + 2) * Base
LongRead(bt, octets, at) == IF bt.kind = "template" THEN ntohs(octets, at) ELSE HostOrder(octets, at)
(* Whether a field's length is looked for in the record: a scope's is when *)
(* the template has fixed it.                                              *)
LengthInRecord(bt, i) == IF i <= bt.scopes THEN ~bt.info[i].isVariableLength
                         ELSE bt.info[i].isVariableLength

(* A loop over field values: offset and length of each, written into the   *)
(* FieldInfo, and the length of all.  The length of a counted field is     *)
(* read from the record.                                                   *)
ReadValuesWhere(counted, bt, octets, at) ==
  FoldLeft(LAMBDA acc, i :
             LET first == Octet(octets, at + acc.sum + 1)
                 long == i \in counted /\ first = LongLength
                 length == IF i \notin counted THEN bt.info[i].length
                           ELSE IF long THEN LongRead(bt, octets, at + acc.sum + 1) ELSE first
                 offset == acc.sum + IF long THEN 3 ELSE IF i \in counted THEN 1 ELSE 0
             IN [info |-> Append(acc.info, [bt.info[i] EXCEPT !.length = length, !.offset = offset]),
                 sum |-> offset + length],
           [info |-> <<>>, sum |-> 0], [i \in DOMAIN bt.info |-> i])
(* Mutant: the length, which the loop rewrites, says whether it varies.   *)
ReadValuesByLength(bt, octets, at) ==
  ReadValuesWhere({i \in DOMAIN bt.info : bt.info[i].length = Variable}, bt, octets, at)
(* The test is of isVariableLength, not of the rewritten length.           *)
ReadValues(bt, octets, at) ==
  ReadValuesWhere({i \in DOMAIN bt.info : LengthInRecord(bt, i)}, bt, octets, at)

Same(bt, source, id) == bt.source = source /\ bt.id = id
getBufferedTemplate(source, id) == SelectSeq(templates, LAMBDA bt : Same(bt, source, id))
(* destroyBufferedTemplate unlinks the first match and tells the callbacks. *)
Destroyed(source, id) ==
  LET at == SelectInSeq(templates, LAMBDA bt : Same(bt, source, id))
  IN IF at = 0 THEN templates ELSE RemoveAt(templates, at)
(* Mutant: the template it replaces is left in the list. *)
bufferTemplateUnchecked(bt) == <<bt>> \o templates
bufferTemplate(bt) == <<bt>> \o Destroyed(bt.source, bt.id)
Told(source, id) == {t \in live : ~Same(t, source, id)}

HeaderLength(kind) == CASE kind = "template" -> 4 [] kind = "options" -> 6 [] kind = "data" -> 8

(* The template record at a position: its BufferedTemplate and its end.    *)
ReadTemplate(source, kind, octets, at) ==
  LET body == at + HeaderLength(kind)
      first == ReadFields(octets, body, ntohs(octets, at + 2))
      fixed == ReadFields(octets, first.at, ntohs(octets, at + 4))
      data == ReadValues([kind |-> kind, scopes |-> 0, info |-> fixed.info], octets, fixed.at)
      varies == \E i \in DOMAIN first.info : first.info[i].isVariableLength
  IN [bt |-> [source |-> source, id |-> ntohs(octets, at), kind |-> kind, info |-> first.info,
              scopes |-> IF kind = "options" THEN ntohs(octets, at + 4) ELSE 0,
              recordLength |-> IF varies THEN Variable ELSE first.sum],
      at |-> IF kind = "data" THEN fixed.at + data.sum ELSE first.at]

-----------------------------------------------------------------------------
Init ==
  /\ templates = <<>> /\ live = {} /\ message = NoMessage /\ sets = 0 /\ garbled = FALSE
  /\ set = NoSet /\ record = 0 /\ got = <<>> /\ want = <<>>
  /\ sent = [s \in Sources |-> [id \in TemplateIds |-> Unsent]]

(* processMessage, processIpfixPacket, processNetflowV9Packet: a message   *)
(* of another version, or of another length than its header says, is       *)
(* dropped.                                                                *)
Receive(source, version, whole) ==
  /\ message = NoMessage /\ sets < MaxSets
  /\ message' = IF version \in {9, 10} /\ (version = 10 => whole)
                THEN [source |-> source, version |-> version] ELSE NoMessage
  /\ UNCHANGED <<templates, set, record, got, live, sent, want, sets, garbled>>

NextSet(id, kind, octets, records) ==
  /\ message # NoMessage /\ set = NoSet /\ sets < MaxSets
  /\ sets' = sets + 1
  /\ set' = [id |-> id, kind |-> kind, octets |-> octets]
  /\ want' = records
  /\ UNCHANGED <<templates, record, got, live, message>>

(* NetFlow v9 has template sets (id 0) and data sets only. *)
Supported(kind) == message.version = 10 \/ kind = "template"

(* A template, behind a withdrawal of the one it replaces or not; the      *)
(* fixed values of a data template stand behind it in the set.             *)
ReceiveTemplates(id, s, withdrawn, padding) ==
  /\ message # NoMessage /\ Supported(s.kind)
  /\ NextSet(0, s.kind, (IF withdrawn THEN U16(id) \o U16(0) ELSE <<>>)
                        \o TemplateOctets(id, s) \o padding, <<>>)
  /\ sent' = [sent EXCEPT ![message.source][id] = s]
  /\ garbled' = (garbled \/ (withdrawn /\ s.kind # "template") \/ LongValues(s.data, s.values))

ReceiveWithdrawal(id, kind) ==
  /\ message # NoMessage /\ Supported(kind)
  /\ NextSet(0, kind, U16(id) \o U16(0), <<>>)
  /\ sent' = [sent EXCEPT ![message.source][id] = Unsent]
  /\ UNCHANGED garbled

RecordsOf(s) ==
  FoldLeft(LAMBDA rs, f : {Append(r, v) : r \in rs, v \in Values(f.length)}, {<<>>}, Layout(s))
DataOctets(s, rs) == FlattenSeq([i \in DOMAIN rs |-> RecordOctets(Layout(s), rs[i])])

ReceiveData(id) ==
  /\ message # NoMessage
  /\ LET s == sent[message.source][id] IN
     IF s = Unsent THEN NextSet(id, "records", <<1, 1, 1, 1>>, <<>>)
     ELSE \E n \in 1..MaxRecords, p \in Paddings :
          \E rs \in [1..n -> RecordsOf(s)] :
             NextSet(id, "records", DataOctets(s, rs) \o [i \in 1..p |-> 0], rs)
  /\ UNCHANGED <<sent, garbled>>

(* A set with an id that is none of 2, 3, 4 and at least 256 is skipped. *)
ReceiveUnsupported == NextSet(0, "unsupported", <<0, 0, 0, 0>>, <<>>) /\ UNCHANGED <<sent, garbled>>

-----------------------------------------------------------------------------
(* One round of processTemplateSet, processOptionsTemplateSet or           *)
(* processDataTemplateSet: a withdrawal or a template.                     *)
TemplatesLeft == set.kind \in Kinds /\ record < Len(set.octets) - 3
ProcessTemplate ==
  /\ TemplatesLeft
  /\ LET id == ntohs(set.octets, record)
         r == ReadTemplate(message.source, set.kind, set.octets, record)
     IN IF ntohs(set.octets, record + 2) = 0
        THEN /\ templates' = Destroyed(message.source, id)
             /\ live' = Told(message.source, id)
             /\ record' = record + HeaderLength(set.kind)
        ELSE /\ templates' = bufferTemplate(r.bt)
             /\ live' = Told(message.source, id) \cup {[source |-> message.source, id |-> id]}
             /\ record' = r.at
  /\ UNCHANGED <<set, got, message, sent, want, sets, garbled>>

(* The bound of the record loop: whole records for fixed template sets,    *)
(* four octets for variable ones, any octet for options and data records.  *)
RecordsLeft(bt) ==
  IF bt.kind # "template" THEN record < Len(set.octets)
  ELSE IF bt.recordLength < Variable THEN record < Len(set.octets) - (bt.recordLength - 1)
  ELSE record < Len(set.octets) - 3

Known == getBufferedTemplate(message.source, set.id)
DataLeft == /\ set.kind = "records" /\ Known # <<>> /\ RecordsLeft(Known[1])

(* The record at the reading position: its FieldInfos and its length.      *)
RecordAt(bt) == IF bt.recordLength = Variable THEN ReadValues(bt, set.octets, record)
                ELSE [info |-> bt.info, sum |-> bt.recordLength]

(* One round of a processDataSet loop: the FieldInfos of the shared        *)
(* template are rewritten, the record goes to the callbacks.               *)
processDataSet ==
  /\ DataLeft
  /\ LET bt == Known[1]
         r == RecordAt(bt)
     IN /\ templates' = [i \in DOMAIN templates |->
                           IF templates[i] = bt THEN [bt EXCEPT !.info = r.info] ELSE templates[i]]
        /\ got' = Append(got, [i \in DOMAIN r.info |->
                     [k \in 1..r.info[i].length |-> Octet(set.octets, record + r.info[i].offset + k)]])
        /\ record' = record + r.sum
  /\ UNCHANGED <<set, live, message, sent, want, sets, garbled>>

EndSet ==
  /\ set # NoSet /\ ~TemplatesLeft /\ ~DataLeft
  /\ set' = NoSet /\ record' = 0 /\ got' = <<>> /\ want' = <<>>
  /\ UNCHANGED <<templates, live, message, sent, sets, garbled>>

EndMessage ==
  /\ message # NoMessage /\ set = NoSet
  /\ message' = NoMessage
  /\ UNCHANGED <<templates, set, record, got, live, sent, want, sets, garbled>>

(* The parser is destroyed: every template it holds is, with its callback. *)
destroyTemplateBuffer ==
  /\ templates' = <<>>
  /\ live' = {t \in live : \A i \in DOMAIN templates : ~Same(templates[i], t.source, t.id)}

destroyIpfixParser ==
  /\ message = NoMessage /\ sets = MaxSets
  /\ destroyTemplateBuffer
  /\ sent' = [s \in Sources |-> [id \in TemplateIds |-> Unsent]]
  /\ UNCHANGED <<set, record, got, message, want, sets, garbled>>

Next ==
  \/ \E s \in Sources, v \in {5, 9, 10}, whole \in BOOLEAN : Receive(s, v, whole)
  \/ \E id \in TemplateIds, s \in Specs, w \in BOOLEAN, p \in {<<>>, <<0, 0, 0>>} :
        ReceiveTemplates(id, s, w, p)
  \/ \E id \in TemplateIds, k \in Kinds : ReceiveWithdrawal(id, k)
  \/ \E id \in TemplateIds : ReceiveData(id)
  \/ ReceiveUnsupported
  \/ ProcessTemplate
  \/ processDataSet
  \/ EndSet
  \/ EndMessage
  \/ destroyIpfixParser

-----------------------------------------------------------------------------
(* What the loops read right: no length of two octets and no scope beside *)
(* a varying length where they are taken for something else, no padding    *)
(* behind options and data records, and behind the records of a template   *)
(* less than their loop asks for.                                          *)
Readable(s, rs) ==
  LET Padding == Len(set.octets) - Len(DataOctets(s, rs))
      End == Len(RecordOctets(Layout(s), rs[Len(rs)]))
  IN CASE s.kind = "template" /\ Varies(s)  -> Padding <= 3 /\ End + Padding > 3
       [] s.kind = "template" /\ ~Varies(s) -> Padding < End
       [] s.kind # "template"               ->
            /\ Padding = 0
            /\ Varies(s) => /\ s.scopes = <<>>
                            /\ \A i \in DOMAIN rs : ~LongValues(Layout(s), rs[i])

(* At the end of a readable set the callbacks have been given the records  *)
(* the exporter encoded, field by field, and nothing made of padding or of *)
(* another template's layout, whatever the records before it have left in  *)
(* the template; and they know exactly the templates the sources have      *)
(* announced and not withdrawn, each of them buffered once.                *)
DecodedAsSent ==
  ~garbled =>
    /\ set.kind = "records" /\ ~DataLeft =>
         (sent[message.source][set.id] = Unsent \/ Readable(sent[message.source][set.id], want)
            => got = want)
    /\ set = NoSet =>
         /\ live = {[source |-> p[1], id |-> p[2]] : p \in
                      {p \in Sources \X TemplateIds : sent[p[1]][p[2]] # Unsent}}
         /\ Len(templates) = Cardinality(live)

(* rcvIpfix.h:33 says of isVariableLength that it is true if this field's  *)
(* length might change from record to record, false otherwise: a set of    *)
(* records leaves the length of every other field as the template has it.  *)
(* The loop over the scopes writes into those of fixed length what it has  *)
(* read in the record (rcvIpfix.c:522-532).                                *)
FixedLengthsStay ==
  [][set.kind = "records" => \A i \in DOMAIN templates : \A k \in DOMAIN templates[i].info :
       ~templates[i].info[k].isVariableLength =>
         templates'[i].info[k].length = templates[i].info[k].length]_vars
=============================================================================
