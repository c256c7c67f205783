-------------------------------- MODULE JsonText -------------------------------
(***************************************************************************)
(* The text inside the signaling messages: json_escape and the relays of   *)
(* signaling.c, the messages webrtc.cpp writes itself, its extraction of   *)
(* an SDP or a candidate from a message, and the buffers a message passes  *)
(* on its way in.  A text is a sequence of characters of which only these  *)
(* kinds matter: a quote, a backslash, a line break (\n; \r and \t are     *)
(* treated alike), the letter of its escape, any other control character   *)
(* (\b, \f, U+0001 ...), and any other.  The fixed head and tail of a       *)
(* message are one character each, the quotes that delimit the value apart. *)
(*                                                                         *)
(* The state is one text, which grows: every text up to MAX_LEN is         *)
(* reached, and the properties compare the functions with a reference.     *)
(***************************************************************************)
EXTENDS Naturals, Sequences, FiniteSets, Functions

CONSTANTS MAX_LEN,     \* bound: characters of a text
          RX_SIZE,     \* rx_buf, 4096 in the source
          EVENT_SIZE   \* data of a SIGNALING event, 2048 in the source

ASSUME JsonAssumption == MAX_LEN \in Nat /\ RX_SIZE \in Nat /\ EVENT_SIZE \in 1 .. RX_SIZE

VARIABLE text

Char == {"quote", "backslash", "break", "n", "control", "other"}

Init == text = <<>>
Next == Len(text) < MAX_LEN /\ \E c \in Char : text' = Append(text, c)
Spec == Init /\ [][Next]_text

--------------------------------------------------------------------------------
(* json_escape *)

Escapes == [quote |-> "quote", backslash |-> "backslash", break |-> "n"]

\* Mutants: "j + 2 <= out_size";  no case for the backslash.
escape_char_tight(out, c, out_size) ==
    IF Len(out) >= out_size - 1 THEN out
    ELSE IF c \notin DOMAIN Escapes THEN Append(out, c)
    ELSE IF Len(out) + 2 =< out_size THEN out \o <<"backslash", Escapes[c]>>
    ELSE out
escape_char_no_backslash(out, c, out_size) ==
    IF Len(out) >= out_size - 1 THEN out
    ELSE IF c \notin DOMAIN Escapes \ {"backslash"} THEN Append(out, c)
    ELSE IF Len(out) + 2 < out_size THEN out \o <<"backslash", Escapes[c]>>
    ELSE out

\* One turn of the loop.  A pair that does not fit is left out, and the loop goes
\* on: a single character after it may still be taken.
escape_char(out, c, out_size) ==
    IF Len(out) >= out_size - 1 THEN out
    ELSE IF c \notin DOMAIN Escapes THEN Append(out, c)
    ELSE IF Len(out) + 2 < out_size THEN out \o <<"backslash", Escapes[c]>>
    ELSE out

\* out[j] is the buffer after j turns of the loop.
json_escape(in, out_size) ==
    LET out[j \in 0 .. Len(in)] ==
            IF j = 0 THEN <<>> ELSE escape_char(out[j - 1], in[j], out_size)
    IN  out[Len(in)]

\* snprintf into a buffer, with what does not fit cut off.
Cut(s, size) == SubSeq(s, 1, IF Len(s) < size THEN Len(s) ELSE size - 1)

Message(value) == <<"head">> \o value \o <<"quote", "tail">>

\* signaling_send_offer, _answer and _ice: two buffers of one size.  A message that
\* was cut is sent all the same.
Relay(in, size) == Cut(Message(json_escape(in, size)), size)

\* onLocalDescription: the SDP as it is, in a message that is sent if it fits.
LocalDescriptionMessage(sdp) == Message(sdp)

--------------------------------------------------------------------------------
(* A message from a viewer *)

\* LWS_CALLBACK_RECEIVE: rx_buf, which webrtc.cpp is given, and the event's copy.
Received(msg)  == Cut(msg, RX_SIZE)
EventData(msg) == Cut(Received(msg), EVENT_SIZE)

\* Mutant: sdp_val is not advanced past an escaped quote.
Extract_no_skip(data) ==
    LET from[i \in 1 .. Len(data) + 2] ==
            IF i > Len(data) \/ data[i] = "quote" THEN <<>>
            ELSE IF data[i] = "backslash" /\ i < Len(data) /\ data[i + 1] = "quote"
              THEN <<"quote">> \o from[i + 1]
              ELSE <<data[i]>> \o from[i + 1]
    IN  from[2]

\* webrtc_handle_signaling: from behind the opening quote up to the next quote that
\* no backslash precedes.  \" is the only escape it knows.
Extract(data) ==
    LET from[i \in 1 .. Len(data) + 2] ==
            IF i > Len(data) \/ data[i] = "quote" THEN <<>>
            ELSE IF data[i] = "backslash" /\ i < Len(data) /\ data[i + 1] = "quote"
              THEN <<"quote">> \o from[i + 2]
              ELSE <<data[i]>> \o from[i + 1]
    IN  from[2]

--------------------------------------------------------------------------------
(* The reference: what JSON says of a string *)

Letter == {Escapes[c] : c \in DOMAIN Escapes}

\* Every text is the escape of one text at most: decode pair by pair.  NotJson
\* stands in the place of what JSON does not allow in a string: a raw quote, a
\* backslash that begins no escape, a raw control character, a line break among
\* them.
Decode(s) ==
    LET from[i \in 1 .. Len(s) + 2] ==
            IF i > Len(s) THEN <<>>
            ELSE IF s[i] = "backslash" /\ i < Len(s) /\ s[i + 1] \in Letter
              THEN <<CHOOSE c \in DOMAIN Escapes : Escapes[c] = s[i + 1]>> \o from[i + 2]
            ELSE IF s[i] \in DOMAIN Escapes \cup {"control"}
              THEN <<"NotJson">> \o from[i + 1]
            ELSE <<s[i]>> \o from[i + 1]
    IN  from[1]

IsString(s) == "NotJson" \notin Range(Decode(s))

\* A whole message with one string in it.
IsJson(m) ==
    /\ Len(m) >= 3
    /\ Head(m) = "head"
    /\ SubSeq(m, Len(m) - 1, Len(m)) = <<"quote", "tail">>
    /\ IsString(SubSeq(m, 2, Len(m) - 2))

\* A text as the other side can read it if its control characters come raw.
Mark(c)   == IF c = "control" THEN "NotJson" ELSE c
Marked(t) == [i \in 1 .. Len(t) |-> Mark(t[i])]

\* r is the characters of s at the indices D, in their order.
Kept(r, s, D) ==
    /\ Len(r) = Cardinality(D)
    /\ \A i \in D : r[Cardinality({j \in D : j =< i})] = s[i]

Sizes == 1 .. 2 * MAX_LEN + 4

\* A viewer's message with a text in it, as its browser encodes it: a text without
\* control characters, of which a browser makes escapes of another form.
Sent(t) == Message(json_escape(t, 2 * MAX_LEN + 2))

--------------------------------------------------------------------------------
(* Properties *)

\* json_escape stays inside its buffer, the terminator counted, whatever its size
\* and wherever the text is cut, and leaves no half of an escape: what it wrote
\* means the text again, or a text from which characters are missing if the buffer
\* was too small for the worst case.  Only the control characters it has no case
\* for are unreadable, each in its place.
EscapeRoundTrips ==
    \A size \in Sizes : LET out  == json_escape(text, size)
                            back == Decode(out)
                        IN  /\ Len(out) =< size - 1
                            /\ \E D \in SUBSET DOMAIN text : Kept(back, Marked(text), D)
                            /\ size > 2 * Len(text) => back = Marked(text)

\* A relay's message is never longer than its buffer, and one that was not cut
\* carries the whole text: it is JSON exactly for the texts without a control
\* character other than \n, \r and \t, and those characters alone make it invalid.
RelayIsJson ==
    \A size \in Sizes : LET m == Relay(text, size)
                        IN  /\ Len(m) < size
                            /\ size > 2 * Len(text) + 3 =>
                                   /\ IsJson(m) <=> "control" \notin Range(text)
                                   /\ Decode(SubSeq(m, 2, Len(m) - 2)) = Marked(text)

\* A text without control characters and backslashes, as candidates are, arrives as
\* it was sent, quotes included, if its message fits rx_buf.  Of a longer message a
\* part arrives from the beginning of the text on, with a lone backslash behind it
\* where the cut went through an escape, and nothing else.
CandidateSurvives ==
    {"backslash", "break", "control"} \cap Range(text) = {} =>
        LET got == Extract(Received(Sent(text)))
        IN  /\ Len(Sent(text)) < RX_SIZE => got = text
            /\ \E n \in 0 .. Len(text) :
                  got \in {SubSeq(text, 1, n), SubSeq(text, 1, n) \o <<"backslash">>}

\* signaling.c, of json_escape: "JSON-escape a string for embedding in JSON
\* values".  json_escape has no case for a control character other than \n, \r and
\* \t, which JSON does not allow in a string.
EscapeIsJson == IsString(json_escape(text, 2 * Len(text) + 2))

\* The same line, of the message webrtc.cpp writes without json_escape.  An SDP has
\* line breaks.
OfferIsJson ==
    {"quote", "backslash", "control"} \cap Range(text) = {} =>
        IsJson(LocalDescriptionMessage(text))

\* webrtc.cpp: "Naive JSON extraction (safe for our controlled format)".
AnswerSurvives == "control" \notin Range(text) => Extract(Sent(text)) = text

\* bindings/godot/README.md: signaling_message(viewer_id, data) is "Raw WebRTC
\* SDP/ICE JSON", which its example parses.
EventCarriesMessage ==
    "control" \notin Range(text) /\ Len(Sent(text)) < RX_SIZE => IsJson(EventData(Sent(text)))

================================================================================
