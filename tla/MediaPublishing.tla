--------------------------- MODULE MediaPublishing ---------------------------
(***************************************************************************)
(* The publish of one content: the checks before it (modules/instagram/    *)
(* media_rules.py), and the containers that it makes at Instagram          *)
(* (modules/publishing/service.py, _publish and what it calls).            *)
(*                                                                         *)
(* Sizes are in MB, durations in seconds.  A caption, an alt text or a     *)
(* list is a member of a few classes around the limits.  Width and height  *)
(* are not here: an upload stores neither, and a check of an unknown value *)
(* is skipped.  The same happens to the duration, which is here for what   *)
(* the documentation says of it.                                           *)
(***************************************************************************)
EXTENDS Naturals, Sequences, SequencesExt, FiniteSets

CONSTANTS
  Lengths,      (* numbers of media files to try                               *)
  Sizes,        (* sizes to try                                                *)
  Durations,    (* durations of videos to try                                  *)
  ImageLimit,   (* MAX_UPLOAD_BYTES                                            *)
  VideoLimit,   (* MAX_VIDEO_UPLOAD_BYTES                                      *)
  MaxPolls      (* polls until REELS_POLL_MAX_WAIT_SECONDS have passed         *)

ASSUME MediaAssumption ==
  /\ Lengths \cup Sizes \cup Durations \cup {ImageLimit, VideoLimit} \subseteq Nat
  /\ MaxPolls \in Nat \ {0}

VARIABLES
  draft,        (* the content, its media, and what its account may do         *)
  stage,        (* how far the publish is                                      *)
  issues,       (* codes of the ValidationIssues                               *)
  containers,   (* the containers at Instagram, in the order of their creation *)
  polls         (* polls of the last container so far                          *)

mediaVars == <<draft, stage, issues, containers, polls>>

-----------------------------------------------------------------------------
(* Contents. *)

MediaTypes == {"IMAGE", "CAROUSEL", "REELS", "STORIES"}

\* POST /media: the MIME type is detected, and has to be one of the kind.
Uploads ==
  [kind : {"IMAGE"}, mb : {s \in Sizes : s <= ImageLimit}, secs : {0}]
    \cup [kind : {"VIDEO"}, mb : {s \in Sizes : s <= VideoLimit}, secs : Durations]

\* The first file, and others that are alike.
MediaSets ==
  {[n \in 1 .. k |-> IF n = 1 THEN first ELSE other] :
     k \in Lengths, first \in Uploads, other \in Uploads}

Captions == {"none", "full", "too long", "31 hashtags", "21 mentions"}
AltTexts == {"none", "full", "too long"}

\* type: content_type; people: collaborators; business: account_type is
\* BUSINESS; granted: a scope to publish is among those that were granted
Drafts ==
  [type : MediaTypes, assets : MediaSets, caption : Captions, alt : AltTexts,
   people : {0, 3, 4}, tags : {20, 21}, business : BOOLEAN, granted : BOOLEAN]

NoDraft == [type |-> "IMAGE", assets |-> << >>, caption |-> "none",
            alt |-> "none", people |-> 0, tags |-> 20,
            business |-> FALSE, granted |-> FALSE]

Container == [video : BOOLEAN, status : {"IN_PROGRESS", "FINISHED", "ERROR"}]

MediaTypeOK ==
  /\ draft = NoDraft \/ draft \in Drafts
  /\ stage \in {"draft", "checked", "polling", "refused", "published", "failed"}
  /\ \A n \in DOMAIN containers : containers[n] \in Container
  /\ polls \in 0 .. MaxPolls

MediaInit ==
  /\ draft = NoDraft
  /\ stage = "draft"
  /\ issues = {}
  /\ containers = << >>
  /\ polls = 0

-----------------------------------------------------------------------------
(* Validation: each operator gives the issues of one check. *)

If(condition, code) == IF condition THEN {code} ELSE {}

\* derive_capabilities, at the time the account was connected
Capable(d) == [content_publish |-> d.granted,
               stories_publish |-> d.granted /\ d.business]

\* validate_caption
CaptionIssues(d) ==
  IF d.type = "STORIES" THEN If(d.caption # "none", "stories_caption_unsupported")
  ELSE If(d.caption = "too long", "caption_too_long")
         \cup If(d.caption = "31 hashtags", "too_many_hashtags")
         \cup If(d.caption = "21 mentions", "too_many_mentions")

\* _spec_for: of the first file alone
SpecFor(d) ==
  CASE d.type = "REELS" -> [kind |-> "VIDEO", mb |-> 1000, secs |-> 3 .. 900]
    [] d.type = "STORIES" /\ d.assets[1].kind = "VIDEO" ->
         [kind |-> "VIDEO", mb |-> 100, secs |-> 3 .. 60]
    [] OTHER -> [kind |-> "IMAGE", mb |-> 8, secs |-> Nat]

\* duration_ms of a MediaAsset, if it has one: POST /media does not store it, and
\* nothing else does.
StoredDuration(asset) == {}

\* Mutant of AssetIssues: the type of the file is not looked at.
AssetIssuesOfSize(asset, spec) == If(asset.mb > spec.mb, "media_too_large")

\* _validate_asset
AssetIssues(asset, spec) ==
  If(asset.kind # spec.kind, "invalid_media_mime")
    \cup If(asset.mb > spec.mb, "media_too_large")
    \cup If(\E secs \in StoredDuration(asset) : secs \notin spec.secs,
            "video_too_short_or_long")

\* validate_media_set
MediaSetIssues(d) ==
  LET n == Len(d.assets) IN
  IF n = 0 THEN {"media_required"}
  ELSE If(d.type = "IMAGE" /\ n # 1, "single_image_required")
         \cup If(d.type = "CAROUSEL" /\ n \notin 2 .. 10, "carousel_item_count")
         \cup If(d.type \in {"REELS", "STORIES"} /\ n # 1, "single_media_required")
         \cup UNION {AssetIssues(asset, SpecFor(d)) : asset \in ToSet(d.assets)}

\* validate_publish_request
PublishIssues(d) ==
  UNION {CaptionIssues(d), MediaSetIssues(d),
    If(d.type = "STORIES" /\ ~Capable(d).stories_publish, "stories_not_supported"),
    If(~Capable(d).content_publish, "content_publish_not_granted"),
    If(d.people > 3, "too_many_collaborators"),
    If(d.type = "STORIES" /\ d.people > 0, "collaborators_not_supported"),
    If(d.tags > 20, "too_many_user_tags"),
    If(d.alt = "too long", "alt_text_too_long"),
    If(d.type = "REELS" /\ d.alt # "none", "reels_alt_text_unsupported"),
    If(d.type = "STORIES" /\ d.alt # "none", "stories_alt_text_unsupported")}

\* A content that has media comes up for its publish.
Check ==
  /\ stage = "draft"
  /\ draft' \in {d \in Drafts : d.assets # << >>}
  /\ issues' = PublishIssues(draft')
  /\ stage' = IF issues' = {} THEN "checked" ELSE "refused"
  /\ UNCHANGED <<containers, polls>>

-----------------------------------------------------------------------------
(* Containers. *)

Made == Len(containers)
Files == Len(draft.assets)

\* create_media_container for the next file; _poll_container follows for a reel
\* and for a video of a carousel.
CreateContainer ==
  /\ stage = "checked" /\ Made < Files
  /\ LET video == draft.assets[Made + 1].kind = "VIDEO" IN
       /\ containers' = Append(containers,
            [video |-> video, status |-> IF video THEN "IN_PROGRESS" ELSE "FINISHED"])
       /\ stage' = IF draft.type = "REELS" \/ (draft.type = "CAROUSEL" /\ video)
                   THEN "polling" ELSE "checked"
  /\ polls' = 0
  /\ UNCHANGED <<draft, issues>>

\* The parent of a carousel, which is not polled.
CreateParent ==
  /\ stage = "checked"
  /\ draft.type = "CAROUSEL" /\ Made = Files
  /\ containers' = Append(containers, [video |-> FALSE, status |-> "FINISHED"])
  /\ UNCHANGED <<draft, stage, issues, polls>>

\* Instagram has processed a video, or cannot, or drops its container.
Processed(n, status) ==
  /\ containers[n].status = "IN_PROGRESS"
  /\ containers' = [containers EXCEPT ![n].status = status]
  /\ UNCHANGED <<draft, stage, issues, polls>>

\* Mutant of Poll: at the deadline it goes on with what there is.
PollUntilDeadline ==
  LET status == containers[Made].status IN
  /\ stage = "polling"
  /\ stage' = CASE status = "FINISHED" -> "checked"
                [] status = "ERROR" -> "failed"
                [] OTHER -> IF polls = MaxPolls THEN "checked" ELSE "polling"
  /\ polls' = IF stage' = "polling" THEN polls + 1 ELSE polls
  /\ UNCHANGED <<draft, issues, containers>>

\* Mutant of Poll: one sleep more than the time that is left for it.
PollPastDeadline ==
  LET status == containers[Made].status IN
  /\ stage = "polling"
  /\ stage' = CASE status = "FINISHED" -> "checked"
                [] status = "ERROR" -> "failed"
                [] OTHER -> IF polls > MaxPolls THEN "failed" ELSE "polling"
  /\ polls' = IF stage' = "polling" THEN polls + 1 ELSE polls
  /\ UNCHANGED <<draft, issues, containers>>

\* One round of _poll_container: FINISHED, an error, the deadline, or a sleep.
Poll ==
  LET status == containers[Made].status IN
  /\ stage = "polling"
  /\ stage' = CASE status = "FINISHED" -> "checked"
                [] status = "ERROR" -> "failed"
                [] OTHER -> IF polls = MaxPolls THEN "failed" ELSE "polling"
  /\ polls' = IF stage' = "polling" THEN polls + 1 ELSE polls
  /\ UNCHANGED <<draft, issues, containers>>

\* _finalize: media_publish of the last container; Instagram publishes it when
\* it is ready.
Finalize ==
  /\ stage = "checked"
  /\ Made = IF draft.type = "CAROUSEL" THEN Files + 1 ELSE Files
  /\ stage' = IF containers[Made].status = "FINISHED" THEN "published" ELSE "failed"
  /\ UNCHANGED <<draft, issues, containers, polls>>

\* A call fails: MetaAPIError, which _build_error makes of the answer.
CallFails ==
  /\ stage \in {"checked", "polling"}
  /\ stage' = "failed"
  /\ UNCHANGED <<draft, issues, containers, polls>>

MediaNext ==
  \/ Check \/ CreateContainer \/ CreateParent \/ Poll \/ Finalize \/ CallFails
  \/ \E n \in DOMAIN containers, status \in {"FINISHED", "ERROR"} : Processed(n, status)

MediaSpec == MediaInit /\ [][MediaNext]_mediaVars

-----------------------------------------------------------------------------
(* Properties. *)

\* The tables of docs/instagram-integration.md, "Content publishing": how long
\* a video may be ...
DocumentedLength(d) ==
  \A n \in DOMAIN d.assets : d.assets[n].kind = "VIDEO" =>
    CASE d.type = "REELS" -> d.assets[n].secs \in 3 .. 900
      [] d.type = "STORIES" -> d.assets[n].secs <= 60
      [] OTHER -> TRUE

\* ... and all the rest.
Documented(d) ==
  /\ d.granted
  /\ DocumentedLength(d)
  /\ \A n \in DOMAIN d.assets :
       d.assets[n].mb <= IF d.assets[n].kind = "IMAGE" THEN 8 ELSE 100
  /\ CASE d.type = "IMAGE" -> Len(d.assets) = 1 /\ d.assets[1].kind = "IMAGE"
       [] d.type = "CAROUSEL" -> Len(d.assets) \in 2 .. 10
       [] d.type = "REELS" -> /\ Len(d.assets) = 1 /\ d.assets[1].kind = "VIDEO"
                              /\ d.alt = "none"
       [] d.type = "STORIES" -> /\ Len(d.assets) = 1 /\ d.business
                                /\ d.caption = "none" /\ d.alt = "none"
                                /\ d.people = 0
  /\ d.caption \in {"none", "full"} /\ d.alt \in {"none", "full"}
  /\ d.people <= 3 /\ d.tags <= 20

\* What the code refuses and the tables allow: "mix of images and videos
\* allowed"; and the other way round: "Video size <= 100 MB".
RefusedVideos(d) ==
  d.type = "CAROUSEL" /\ \E n \in DOMAIN d.assets : d.assets[n].kind = "VIDEO"
LargeReel(d) ==
  d.type = "REELS" /\ Len(d.assets) = 1 /\ d.assets[1].mb > 100

\* The checks let pass what the tables allow and nothing else, but for three
\* differences: the carousels with videos, the large reels, and the videos that
\* are too short or too long.
AcceptsWhatIsDocumented ==
  stage # "draft" /\ ~RefusedVideos(draft) /\ ~LargeReel(draft)
    /\ DocumentedLength(draft) =>
      (stage # "refused" <=> Documented(draft))

\* "Reels/carousel-video containers must reach FINISHED before the parent is
\* created or published": media_publish is never tried on a reel or a carousel
\* of which a video is still being processed.
VideosAreReady ==
  stage \in {"checked", "published"} /\ draft.type \in {"REELS", "CAROUSEL"} =>
    \A n \in DOMAIN containers : containers[n].status = "FINISHED"

=============================================================================
