---------------------------- MODULE HeaderFields ----------------------------
(***************************************************************************)
(* The header fields of MRCP messages: their tables and conversions        *)
(* (libs/mrcp/resources/src/mrcp_*_header.c, libs/mrcp/message/src/        *)
(* mrcp_generic_header.c, mrcp_header_accessor.c, mrcp_header.c,           *)
(* libs/apr-toolkit/src/apt_header_field.c).                               *)
(*                                                                         *)
(* A table gives the conversion of every field.  The text of a value is    *)
(* [sign, num, word], num in hundredths: "+10 Second" is                   *)
(* [sign |-> "+", num |-> 1000, word |-> "Second"]; "" as sign or word, and *)
(* None as num, stand for nothing written.  A typed value, as the          *)
(* application sets it, is [type, num, word].                              *)
(***************************************************************************)
EXTENDS Integers, Sequences, SequencesExt, FiniteSets, TLC

None == -1
NoText == [sign |-> "", num |-> None, word |-> ""]
Text(sign, num, word) == [sign |-> sign, num |-> num, word |-> word]
Typed(type, num, word) == [type |-> type, num |-> num, word |-> word]

All(kind, names) == [n \in names |-> kind]

GenericFields ==
    All("string", {"Proxy-Sync-Id", "Accept-Charset", "Content-Type", "Content-Id", "Content-Base",
        "Content-Encoding", "Content-Location", "Cache-Control", "Logging-Tag", "Accept",
        "Set-Cookie", "Set-Cookie2"})
    @@ All("size", {"Content-Length", "Fetch-Timeout"})
    @@ ("Active-Request-Id-List" :> "ids") @@ ("Vendor-Specific-Parameters" :> "pairs")

SynthFields ==
    All("string", {"Speaker-Profile", "Completion-Reason", "Voice-Name", "Speech-Marker",
        "Speech-Language", "Fetch-Hint", "Audio-Fetch-Hint", "Failed-Uri", "Failed-Uri_Cause",
        "Lexicon-Search-Order"})
    @@ All("bool", {"Kill-On-Barge-In", "Speak-Restart", "Load-Lexicon"})
    @@ All("size", {"Voice-Age", "Voice-Variant"})
    @@ All("length", {"Jump-Size", "Speak-Length"})
    @@ ("Completion-Cause" :> "cause") @@ ("Voice-Gender" :> "gender")
    @@ ("Prosody-Volume" :> "volume") @@ ("Prosody-Rate" :> "rate")

(* The three scores are whole percents in MRCPv1 and fractions in MRCPv2.  *)
RecogFields(version) ==
    All(IF version = 1 THEN "percent" ELSE "float",
        {"Confidence-Threshold", "Sensitivity-Level", "Speed-Vs-Accuracy"})
    @@ All("size", {"N-Best-List-Length", "No-Input-Timeout", "Recognition-Timeout",
        "Speech-Complete-Timeout", "Speech-Incomplete-Timeout", "DTMF-Interdigit-Timeout",
        "DTMF-Term-Timeout", "Hotword-Max-Duration", "Hotword-Min-Duration", "DTMF-Buffer-Time",
        "Num-Min-Consistent-Pronunciations"})
    @@ All("string", {"Waveform-Uri", "Recognizer-Context-Block", "Failed-Uri", "Failed-Uri-Cause",
        "Speech-Language", "Input-Type", "Input-Waveform-Uri", "Completion-Reason", "Media-Type",
        "Recognition-Mode", "Interpret-Text", "Personal-Grammar-URI", "Phrase-ID", "Phrase-NL",
        "New-Phrase-ID", "Confusable-Phrases-URI"})
    @@ All("bool", {"Start-Input-Timers", "Save-Waveform", "New-Audio-Channel",
        "Ver-Buffer-Utterance", "Cancel-If-Queue", "Clear-DTMF-Buffer", "Early-No-Match",
        "Enroll-Utterance", "Save-Best-Waveform", "Abort-Phrase-Enrollment"}
        \cup IF version = 1 THEN {} ELSE {"Multiple-Mode"})
    @@ All("float", {"Consistency-Threshold", "Clash-Threshold", "Weight"})
    @@ ("Completion-Cause" :> "cause") @@ ("DTMF-Term-Char" :> "char")

VerifierFields ==
    All("string", {"Repository-URI", "Voiceprint-Identifier", "Verification-Mode", "Media-Type",
        "Waveform-URI", "Input-Waveform-URI", "Completion-Reason"})
    @@ All("bool", {"Adapt-Model", "Abort-Model", "Save-Waveform", "Voiceprint-Exists",
        "Ver-Buffer-Utterance", "New-Audio-Channel", "Abort-Verification", "Start-Input-Timers"})
    @@ All("size", {"Num-Min-Verification-Phrases", "Num-Max-Verification-Phrases",
        "No-Input-Timeout", "Speech-Complete-Timeout"})
    @@ ("Min-Verification-Score" :> "float") @@ ("Completion-Cause" :> "cause")

RecorderFields ==
    All("string", {"Completion-Reason", "Failed-Uri", "Failed-Uri-Cause", "Record-Uri", "Media-Type"})
    @@ All("size", {"No-Input-Timeout", "Max-Time", "Trim-Length", "Final-Silence"})
    @@ All("bool", {"Capture-On-Speech", "Ver-Buffer-Utterance", "Start-Input-Timers",
        "New-Audio-Channel"})
    @@ ("Sensitivity-Level" :> "float") @@ ("Completion-Cause" :> "cause")

-----------------------------------------------------------------------------
(* Conversions                                                             *)

Whole(num) == IF num = None THEN 0 ELSE num \div 100
Number(num) == IF num = None THEN 0 ELSE num

Genders == {"male", "female", "neutral"}
Labels == {"silent", "soft", "medium", "loud", "slow", "fast", "default"}
Causes == 0..4

Label(table, word) == Typed("label", None, IF word \in table THEN word ELSE "none")

apt_boolean_value_parse(t, old) ==
    CASE t.word = "true" -> Typed("bool", 1, "")
      [] t.word = "false" -> Typed("bool", 0, "")
      [] OTHER -> old

(* A number after "+" or "-" is a change, a bare one an absolute volume.   *)
mrcp_prosody_param_volume_parse(t) ==
    CASE t.sign = "+" -> Typed("relative", Number(t.num), "")
      [] t.sign = "-" -> Typed("relative", -Number(t.num), "")
      [] t.sign = "" /\ t.num # None -> Typed("numeric", t.num, "")
      [] OTHER -> Label(Labels, t.word)

mrcp_prosody_param_rate_parse(t) ==
    IF t.sign = "" /\ t.num # None THEN Typed("relative", t.num, "") ELSE Label(Labels, t.word)

mrcp_speech_length_value_parse(t) ==
    IF t.sign = "" THEN Typed("tag", None, t.word) ELSE Typed(t.sign, Whole(t.num), t.word)

parse_field(kind, t, old) ==
    CASE kind \in {"string", "char", "pairs"} -> Typed("text", None, t.word)
      [] kind = "bool" -> apt_boolean_value_parse(t, old)
      [] kind \in {"size", "cause", "ids"} -> Typed("size", Whole(t.num), "")
      [] kind = "float" -> Typed("float", Number(t.num), "")
      [] kind = "percent" -> Typed("float", Whole(t.num), "")
      [] kind = "gender" -> Label(Genders, t.word)
      [] kind = "volume" -> mrcp_prosody_param_volume_parse(t)
      [] kind = "rate" -> mrcp_prosody_param_rate_parse(t)
      [] kind = "length" -> mrcp_speech_length_value_parse(t)

(* "%f" without its trailing zeros: only a negative number has a sign.     *)
apt_float_value_generate(num) ==
    IF num < 0 THEN Text("-", -num, "") ELSE Text("", num, "")

apt_completion_cause_generate(cause) ==
    IF cause \in Causes THEN Text("", 100 * cause, "cause") ELSE NoText

apt_size_value_generate_from_float(num) == Text("", 100 * num, "")

mrcp_prosody_generate(v) ==
    CASE v.type = "label" -> IF v.word = "none" THEN NoText ELSE Text("", None, v.word)
      [] v.type # "label" -> apt_float_value_generate(v.num)

mrcp_speech_length_generate(v) ==
    IF v.type = "tag" THEN Text("", None, v.word) ELSE Text(v.type, 100 * v.num, v.word)

generate_field(kind, v) ==
    CASE kind \in {"string", "char", "pairs"} -> Text("", None, v.word)
      [] kind = "bool" -> Text("", None, IF v.num = 1 THEN "true" ELSE "false")
      [] kind \in {"size", "ids"} -> Text("", 100 * v.num, "")
      [] kind = "cause" -> apt_completion_cause_generate(v.num)
      [] kind = "float" -> apt_float_value_generate(v.num)
      [] kind = "percent" -> apt_size_value_generate_from_float(v.num)
      [] kind \in {"gender", "volume", "rate"} -> mrcp_prosody_generate(v)
      [] kind = "length" -> mrcp_speech_length_generate(v)

(* Text is taken from the field, everything else from the typed header;    *)
(* a list of request identifiers is not taken over.                        *)
duplicate_field(kind, old, src, text) ==
    CASE kind \in {"string", "char", "pairs"} -> parse_field(kind, text, old)
      [] kind = "ids" -> old
      [] OTHER -> src

-----------------------------------------------------------------------------
(* The conversions of one header, by the name of the field.                *)

mrcp_generic_header_parse(n, t, old) == parse_field(GenericFields[n], t, old)
mrcp_generic_header_generate(n, v) == generate_field(GenericFields[n], v)
mrcp_generic_header_duplicate(n, old, src, t) == duplicate_field(GenericFields[n], old, src, t)

mrcp_synth_header_parse(n, t, old) == parse_field(SynthFields[n], t, old)
mrcp_synth_header_generate(n, v) == generate_field(SynthFields[n], v)
mrcp_synth_header_duplicate(n, old, src, t) == duplicate_field(SynthFields[n], old, src, t)

mrcp_recog_header_parse(version, n, t, old) == parse_field(RecogFields(version)[n], t, old)
mrcp_recog_header_generate(version, n, v) == generate_field(RecogFields(version)[n], v)
mrcp_recog_header_duplicate(version, n, old, src, t) ==
    duplicate_field(RecogFields(version)[n], old, src, t)

mrcp_verifier_header_parse(n, t, old) == parse_field(VerifierFields[n], t, old)
mrcp_verifier_header_generate(n, v) == generate_field(VerifierFields[n], v)
mrcp_verifier_header_duplicate(n, old, src, t) == duplicate_field(VerifierFields[n], old, src, t)

mrcp_recorder_header_parse(n, t, old) == parse_field(RecorderFields[n], t, old)
mrcp_recorder_header_generate(n, v) == generate_field(RecorderFields[n], v)
mrcp_recorder_header_duplicate(n, old, src, t) == duplicate_field(RecorderFields[n], old, src, t)

(* r = [name, version] is the resource a message is of.  A name is looked  *)
(* up in the table of the resource first, then in the generic one.         *)
ResourceNames(r) ==
    CASE r.name = "synth" -> DOMAIN SynthFields
      [] r.name = "recog" -> DOMAIN RecogFields(r.version)
      [] r.name = "verifier" -> DOMAIN VerifierFields
      [] r.name = "recorder" -> DOMAIN RecorderFields

Known(r, n) == n \in ResourceNames(r) \cup DOMAIN GenericFields

mrcp_header_field_value_parse(r, n, t, old) ==
    CASE n \notin ResourceNames(r) -> mrcp_generic_header_parse(n, t, old)
      [] n \in ResourceNames(r) /\ r.name = "synth" -> mrcp_synth_header_parse(n, t, old)
      [] n \in ResourceNames(r) /\ r.name = "recog" -> mrcp_recog_header_parse(r.version, n, t, old)
      [] n \in ResourceNames(r) /\ r.name = "verifier" -> mrcp_verifier_header_parse(n, t, old)
      [] n \in ResourceNames(r) /\ r.name = "recorder" -> mrcp_recorder_header_parse(n, t, old)

mrcp_header_field_value_generate(r, n, v) ==
    CASE n \notin ResourceNames(r) -> mrcp_generic_header_generate(n, v)
      [] n \in ResourceNames(r) /\ r.name = "synth" -> mrcp_synth_header_generate(n, v)
      [] n \in ResourceNames(r) /\ r.name = "recog" -> mrcp_recog_header_generate(r.version, n, v)
      [] n \in ResourceNames(r) /\ r.name = "verifier" -> mrcp_verifier_header_generate(n, v)
      [] n \in ResourceNames(r) /\ r.name = "recorder" -> mrcp_recorder_header_generate(n, v)

mrcp_header_field_value_duplicate(r, n, old, src, t) ==
    CASE n \notin ResourceNames(r) -> mrcp_generic_header_duplicate(n, old, src, t)
      [] n \in ResourceNames(r) /\ r.name = "synth" -> mrcp_synth_header_duplicate(n, old, src, t)
      [] n \in ResourceNames(r) /\ r.name = "recog" -> mrcp_recog_header_duplicate(r.version, n, old, src, t)
      [] n \in ResourceNames(r) /\ r.name = "verifier" -> mrcp_verifier_header_duplicate(n, old, src, t)
      [] n \in ResourceNames(r) /\ r.name = "recorder" -> mrcp_recorder_header_duplicate(n, old, src, t)

-----------------------------------------------------------------------------
(* A message header: [fields, data].  fields is the ring of [name, text]   *)
(* (the array by identifier is the known names in it), data the typed      *)
(* headers; Unset is what mrcp_*_header_init leaves.                       *)

Unset == Typed("unset", 0, "")

EmptyHeader(names) == [fields |-> <<>>, data |-> [n \in names |-> Unset]]

Has(h, name) == \E i \in 1..Len(h.fields) : h.fields[i].name = name

TextOf(h, name) == h.fields[CHOOSE i \in 1..Len(h.fields) : h.fields[i].name = name].text

apt_header_section_field_add(h, f, known) ==
    IF known /\ Has(h, f.name) THEN h ELSE [h EXCEPT !.fields = Append(@, f)]

header_property_add(h, r, name, v) ==
    [apt_header_section_field_add(h,
         [name |-> name, text |-> mrcp_header_field_value_generate(r, name, v)], TRUE)
        EXCEPT !.data[name] = v]

(* The receiver's side: every field is looked up and its value parsed.     *)
mrcp_header_fields_parse(fields, names, r) ==
    FoldLeft(LAMBDA h, f :
                 IF ~Known(r, f.name) \/ f.text = NoText THEN h
                 ELSE [h EXCEPT !.data[f.name] = mrcp_header_field_value_parse(r, f.name, f.text, @)],
             [EmptyHeader(names) EXCEPT !.fields = fields], fields)

mrcp_header_accessor_value_duplicate(h, src, f, r) ==
    IF ~Known(r, f.name) \/ f.text = NoText THEN h
    ELSE [h EXCEPT !.data[f.name] = mrcp_header_field_value_duplicate(r, f.name, @, src.data[f.name], f.text)]

mrcp_header_fields_set(h0, src, r) ==
    FoldLeft(LAMBDA h, f :
                 LET known == Known(r, f.name)
                     copied == IF known /\ Has(h, f.name)
                               THEN [h EXCEPT !.fields = [i \in DOMAIN @ |->
                                        IF @[i].name = f.name THEN f ELSE @[i]]]
                               ELSE [h EXCEPT !.fields = Append(@, f)]
                 IN  mrcp_header_accessor_value_duplicate(copied, src, f, r),
             h0, src.fields)

mrcp_header_fields_get(h0, src, mask, r) ==
    FoldLeft(LAMBDA h, m :
                 LET known == Known(r, m.name)
                     f == IF known /\ Has(src, m.name)
                          THEN [name |-> m.name, text |-> TextOf(src, m.name)] ELSE m
                 IN  CASE known /\ Has(h, m.name) -> h
                       [] ~(known /\ Has(h, m.name)) /\ known /\ Has(src, m.name) ->
                             apt_header_section_field_add(
                                 mrcp_header_accessor_value_duplicate(h, src, f, r), f, known)
                       [] OTHER -> apt_header_section_field_add(h, f, known),
             h0, mask.fields)

mrcp_header_fields_inherit_over(h0, src, r) == mrcp_header_fields_set(h0, src, r)

mrcp_header_fields_inherit(h0, src, r) ==
    FoldLeft(LAMBDA h, f :
                 LET known == Known(r, f.name)
                 IN  IF known /\ Has(h, f.name) THEN h
                     ELSE apt_header_section_field_add(
                              mrcp_header_accessor_value_duplicate(h, src, f, r), f, known),
             h0, src.fields)
=============================================================================
