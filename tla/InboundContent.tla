--------------------------- MODULE InboundContent ---------------------------
(***************************************************************************)
(* What the bridge makes of one received protobuf message: the wrappers it *)
(* opens, the first field it recognises, what it does about media, and how *)
(* the result is labelled and classified.  Pure operators.                 *)
(*                                                                         *)
(* A message is [wraps, body]: the wrappers around it, outermost first,    *)
(* and the body, a record of what the extraction tells apart:              *)
(*   has    the protobuf fields that are present,                          *)
(*   parts  the inner parts such a field needs (coordinates, a key, the    *)
(*          wrapped document, ...) are present too,                        *)
(*   text   the caption, emoji, name or body text is not empty,            *)
(*   file   what a media field says of its file,                           *)
(*   key    a poll creation carries its encryption key,                    *)
(*   vote   the encrypted vote of a poll update.                           *)
(***************************************************************************)
EXTENDS Integers, Sequences, FiniteSets

MaxExtractDepth == 3

\* The order in which extract_content_inner looks at the fields: media before
\* text, since a voice note may carry its transcription as `conversation`.
Order == << "image", "video", "ptv", "audio", "document", "documentWithCaption",
            "sticker", "location", "liveLocation", "contact", "contacts",
            "reaction", "encReaction", "edited", "protocol", "poll", "pollV4",
            "vote", "conversation", "extendedText" >>

BodyFields == {Order[i] : i \in DOMAIN Order}

Media == {"image", "video", "ptv", "audio", "document", "documentWithCaption",
          "sticker"}

\* Fields whose branch falls through when an inner part is missing.
NeedParts == {"documentWithCaption", "location", "liveLocation", "contacts",
              "reaction", "edited", "protocol", "pollV4", "vote", "extendedText"}

Declared == {"absent", "ok", "over"}
Places == {"path", "url", "badPath", "none"}

\* Mutant: only the path is looked at.
SafePath(file) == file.place \notin {"badPath", "none"}

\* unsafe_media_location: a sender's URL is refused whatever the path says.
SafePlace(file) == file.place = "path"

\* The checks of MediaMode::bytes that come before any request.
Refusal(file) ==
    IF file.declared = "over" THEN "tooLarge"
    ELSE IF SafePlace(file) THEN "none" ELSE "refused"

\* The branch a body takes: the first present field that does not fall
\* through.  A vote that could not be read (`readable`) falls through as well.
Taken(body, readable) ==
    LET Hit(f) == /\ f \in body.has
                  /\ f \in NeedParts => body.parts
                  /\ f = "vote" => readable
        hits == {i \in DOMAIN Order : Hit(Order[i])}
    IN  IF hits = {} THEN "none"
        ELSE Order[CHOOSE i \in hits : \A j \in hits : i <= j]

\* Each wrapper costs one level of recursion; past the limit nothing is read.
TooDeep(msg) == Len(msg.wraps) > MaxExtractDepth

Branch(msg, readable) ==
    IF TooDeep(msg) THEN "none" ELSE Taken(msg.body, readable)

\* The vote is only looked at when no earlier field takes the message.
LooksAtVote(msg) == Branch(msg, TRUE) = "vote"

\* InboundContent::kind of what a branch produces; "none" is Unhandled.
Kind(body, branch) ==
    CASE branch = "ptv" -> "video"
      [] branch = "documentWithCaption" -> "document"
      [] branch = "liveLocation" -> "location"
      [] branch = "contacts" -> "contact"
      [] branch = "reaction" -> IF body.text THEN "reaction" ELSE "reaction-removed"
      [] branch = "edited" -> "edit"
      [] branch = "protocol" -> "revoke"
      [] branch = "pollV4" -> "poll"
      [] branch = "vote" -> "poll-vote"
      [] branch \in {"conversation", "extendedText"} -> "text"
      [] branch = "encReaction" -> "none"
      [] OTHER -> branch

Kinds == {"image", "video", "audio", "document", "sticker", "location",
          "contact", "reaction", "reaction-removed", "edit", "revoke", "poll",
          "poll-vote", "text"}

\* display_text: every kind but a text has a label, whatever its fields say.
HasDisplayText(kind, text) == kind # "text" \/ text

\* embeddable_text: genuine natural language only; a poll always has some.
Embeddable(kind, text) ==
    \/ kind = "poll"
    \/ kind \in {"text", "image", "video", "document", "contact", "location"} /\ text

EmbedStatus(kind, text) == IF Embeddable(kind, text) THEN "pending" ELSE "skipped"

\* handle_event looks for the key of a poll in the message as it arrived, not
\* inside a wrapper.
KeyToStore(msg) ==
    /\ msg.wraps = << >>
    /\ msg.body.has \cap {"poll", "pollV4"} # {}
    /\ msg.body.key

\* Detected on the outermost layer only, for two of the three wrappers.
FlaggedViewOnce(msg) ==
    msg.wraps # << >> /\ Head(msg.wraps) \in {"viewOnce", "viewOnceV2"}

\* unwrap_to_inner has no depth limit, and the context fields are looked for
\* in the variants that carry one.
CarriesContext == {"extendedText", "image", "video", "audio", "document", "sticker"}
HasContext(msg) == msg.body.has \cap CarriesContext # {}
=============================================================================
