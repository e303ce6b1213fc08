---------------------------- MODULE ServicesProofs ----------------------------
(***************************************************************************)
(* Proofs about MediaPublishing, for any numbers and sizes of files, any   *)
(* limits of an upload and any number of polls; and about the instance of  *)
(* five modules that MCServices makes: each of them behaves in it as it    *)
(* does alone, so that what is proved of each holds there.                 *)
(***************************************************************************)
EXTENDS MCServices, CounterProofs, WebhooksProofs

-----------------------------------------------------------------------------
(* The checks of a content. *)

\* Contents that come up for a publish.
Publishable == {d \in Drafts : d.assets # << >>}

LEMMA MediaConstants ==
  /\ MaxPolls \in Nat /\ MaxPolls > 0
  /\ \A k \in Lengths : k \in Nat
  /\ \A s \in Sizes : s \in Nat
BY MediaAssumption

LEMMA NoIssue ==
  ASSUME NEW condition \in BOOLEAN, NEW code
  PROVE  If(condition, code) = {} <=> ~condition
BY DEF If

LEMMA UploadFacts ==
  ASSUME NEW a \in Uploads
  PROVE  a.kind \in {"IMAGE", "VIDEO"} /\ a.mb \in Nat
BY MediaConstants DEF Uploads

LEMMA MediaSetsAre == \A s \in MediaSets : \E k \in Lengths : s \in [1 .. k -> Uploads]
BY DEF MediaSets

LEMMA AssetsFacts ==
  ASSUME NEW d \in Publishable
  PROVE  /\ d.assets \in Seq(Uploads)
         /\ Len(d.assets) \in Nat \ {0} /\ DOMAIN d.assets = 1 .. Len(d.assets)
         /\ \A n \in DOMAIN d.assets : d.assets[n] \in Uploads
         /\ ToSet(d.assets) = {d.assets[n] : n \in DOMAIN d.assets}
<1>1. d.assets \in MediaSets /\ d.assets # << >>
  BY DEF Publishable, Drafts
<1>2. PICK k \in Lengths : d.assets \in [1 .. k -> Uploads]
  BY <1>1, MediaSetsAre
<1>3. k \in Nat /\ d.assets \in [1 .. k -> Uploads]
  BY <1>2, MediaConstants
<1>4. d.assets \in Seq(Uploads)
  BY <1>3
<1> QED BY <1>1, <1>4 DEF ToSet

\* Each check has an issue exactly when what it looks at is wrong.
LEMMA CaptionChecked ==
  ASSUME NEW d \in Drafts
  PROVE  CaptionIssues(d) = {}
           <=> IF d.type = "STORIES" THEN d.caption = "none"
               ELSE d.caption \in {"none", "full"}
<1>1. d.caption \in Captions
  BY DEF Drafts
<1> QED BY <1>1 DEF CaptionIssues, If, Captions

\* The duration is not looked at: no upload stores one.
AssetFits(asset, spec) == asset.kind = spec.kind /\ asset.mb <= spec.mb

LEMMA AssetChecked ==
  ASSUME NEW asset \in Uploads, NEW spec, spec.mb \in Nat
  PROVE  AssetIssues(asset, spec) = {} <=> AssetFits(asset, spec)
BY UploadFacts DEF AssetIssues, StoredDuration, If, AssetFits

LEMMA SpecFacts ==
  ASSUME NEW d \in Publishable
  PROVE  /\ SpecFor(d).mb \in Nat
         /\ d.type = "REELS" => SpecFor(d).kind = "VIDEO" /\ SpecFor(d).mb = 1000
         /\ d.type = "STORIES" /\ d.assets[1].kind = "VIDEO" =>
              SpecFor(d).kind = "VIDEO" /\ SpecFor(d).mb = 100
         /\ d.type \in {"IMAGE", "CAROUSEL"}
              \/ (d.type = "STORIES" /\ d.assets[1].kind # "VIDEO") =>
              SpecFor(d).kind = "IMAGE" /\ SpecFor(d).mb = 8
<1>1. d.type \in MediaTypes
  BY DEF Publishable, Drafts
<1>2. CASE d.type = "REELS"
  BY <1>2 DEF SpecFor
<1>3. CASE d.type = "STORIES" /\ d.assets[1].kind = "VIDEO"
  BY <1>3 DEF SpecFor
<1>4. CASE d.type \in {"IMAGE", "CAROUSEL"}
             \/ (d.type = "STORIES" /\ d.assets[1].kind # "VIDEO")
  BY <1>4 DEF SpecFor
<1> QED BY <1>1, <1>2, <1>3, <1>4 DEF MediaTypes

LEMMA MediaSetChecked ==
  ASSUME NEW d \in Publishable
  PROVE  MediaSetIssues(d) = {}
           <=> /\ d.type = "CAROUSEL" => Len(d.assets) \in 2 .. 10
               /\ d.type # "CAROUSEL" => Len(d.assets) = 1
               /\ \A n \in DOMAIN d.assets : AssetFits(d.assets[n], SpecFor(d))
<1> DEFINE n == Len(d.assets)
           One == If(d.type = "IMAGE" /\ n # 1, "single_image_required")
           Some10 == If(d.type = "CAROUSEL" /\ n \notin 2 .. 10, "carousel_item_count")
           Single == If(d.type \in {"REELS", "STORIES"} /\ n # 1, "single_media_required")
           Each == UNION {AssetIssues(asset, SpecFor(d)) : asset \in ToSet(d.assets)}
<1>1. n # 0 /\ d.type \in MediaTypes
  BY AssetsFacts DEF Publishable, Drafts
<1>2. MediaSetIssues(d) = One \cup Some10 \cup Single \cup Each
  BY <1>1 DEF MediaSetIssues
<1>3. Each = {} <=> \A m \in DOMAIN d.assets : AssetFits(d.assets[m], SpecFor(d))
  <2>1. Each = {} <=> \A asset \in ToSet(d.assets) : AssetIssues(asset, SpecFor(d)) = {}
    OBVIOUS
  <2>0. /\ \A m \in DOMAIN d.assets : d.assets[m] \in Uploads
        /\ ToSet(d.assets) = {d.assets[m] : m \in DOMAIN d.assets}
    BY AssetsFacts
  <2>2. \A asset \in ToSet(d.assets) : asset \in Uploads
    BY <2>0
  <2>3. \A asset \in ToSet(d.assets) :
          AssetIssues(asset, SpecFor(d)) = {} <=> AssetFits(asset, SpecFor(d))
    BY <2>2, SpecFacts, AssetChecked
  <2> HIDE DEF Each
  <2> QED BY <2>0, <2>1, <2>3
<1>4. /\ One = {} <=> ~(d.type = "IMAGE" /\ n # 1)
      /\ Some10 = {} <=> ~(d.type = "CAROUSEL" /\ n \notin 2 .. 10)
      /\ Single = {} <=> ~(d.type \in {"REELS", "STORIES"} /\ n # 1)
  BY NoIssue
<1> HIDE DEF One, Some10, Single, Each
<1>5. MediaSetIssues(d) = {} <=> One = {} /\ Some10 = {} /\ Single = {} /\ Each = {}
  BY <1>2
<1> QED BY <1>1, <1>3, <1>4, <1>5 DEF MediaTypes

\* What a content without an issue is like.
Allowed(d) ==
  /\ CaptionIssues(d) = {} /\ MediaSetIssues(d) = {}
  /\ d.granted /\ (d.type = "STORIES" => d.business)
  /\ d.people <= 3 /\ (d.type = "STORIES" => d.people = 0)
  /\ d.tags <= 20
  /\ d.alt # "too long" /\ (d.type \in {"REELS", "STORIES"} => d.alt = "none")

LEMMA RequestChecked ==
  ASSUME NEW d \in Drafts
  PROVE  PublishIssues(d) = {} <=> Allowed(d)
<1> DEFINE A == CaptionIssues(d)
           B == MediaSetIssues(d)
           C == If(d.type = "STORIES" /\ ~Capable(d).stories_publish,
                   "stories_not_supported")
           D == If(~Capable(d).content_publish, "content_publish_not_granted")
           E == If(d.people > 3, "too_many_collaborators")
           F == If(d.type = "STORIES" /\ d.people > 0, "collaborators_not_supported")
           G == If(d.tags > 20, "too_many_user_tags")
           H == If(d.alt = "too long", "alt_text_too_long")
           I == If(d.type = "REELS" /\ d.alt # "none", "reels_alt_text_unsupported")
           J == If(d.type = "STORIES" /\ d.alt # "none", "stories_alt_text_unsupported")
<1>1. /\ d.type \in MediaTypes /\ d.people \in Nat /\ d.tags \in Nat
      /\ d.business \in BOOLEAN /\ d.granted \in BOOLEAN
  BY DEF Drafts
<1>2. /\ Capable(d).content_publish = d.granted
      /\ Capable(d).stories_publish = (d.granted /\ d.business)
  BY DEF Capable
<1>3. PublishIssues(d) = UNION {A, B, C, D, E, F, G, H, I, J}
  BY DEF PublishIssues
<1>4. /\ C = {} <=> ~(d.type = "STORIES" /\ ~(d.granted /\ d.business))
      /\ D = {} <=> d.granted
  BY <1>1, <1>2 DEF If
<1>5. /\ E = {} <=> d.people <= 3
      /\ F = {} <=> ~(d.type = "STORIES" /\ d.people # 0)
      /\ G = {} <=> d.tags <= 20
  BY <1>1 DEF If
<1>6. /\ H = {} <=> d.alt # "too long"
      /\ I = {} <=> ~(d.type = "REELS" /\ d.alt # "none")
      /\ J = {} <=> ~(d.type = "STORIES" /\ d.alt # "none")
  BY DEF If
<1> HIDE DEF A, B, C, D, E, F, G, H, I, J
<1>7. PublishIssues(d) = {}
        <=> /\ A = {} /\ B = {} /\ C = {} /\ D = {} /\ E = {}
            /\ F = {} /\ G = {} /\ H = {} /\ I = {} /\ J = {}
  BY <1>3
<1> QED BY <1>4, <1>5, <1>6, <1>7 DEF Allowed, A, B

\* The checks and the tables.
LEMMA ChecksAreTheTables ==
  ASSUME NEW d \in Publishable, ~RefusedVideos(d), ~LargeReel(d), DocumentedLength(d)
  PROVE  PublishIssues(d) = {} <=> Documented(d)
<1>1. /\ d.type \in MediaTypes /\ d.caption \in Captions /\ d.alt \in AltTexts
      /\ d \in Drafts /\ d.people \in {0, 3, 4}
      /\ d.business \in BOOLEAN /\ d.granted \in BOOLEAN
  BY DEF Publishable, Drafts
<1>2. /\ Len(d.assets) \in Nat \ {0} /\ DOMAIN d.assets = 1 .. Len(d.assets)
      /\ \A n \in DOMAIN d.assets :
           d.assets[n].kind \in {"IMAGE", "VIDEO"} /\ d.assets[n].mb \in Nat
      /\ 1 \in DOMAIN d.assets
  BY AssetsFacts, UploadFacts
<1>3. PublishIssues(d) = {} <=> Allowed(d)
  BY <1>1, RequestChecked
<1> DEFINE Fits == \A n \in DOMAIN d.assets :
                     d.assets[n].mb <= IF d.assets[n].kind = "IMAGE" THEN 8 ELSE 100
<1>4. CASE d.type = "IMAGE"
  <2>1. MediaSetIssues(d) = {} <=>
          Len(d.assets) = 1 /\ d.assets[1].kind = "IMAGE" /\ d.assets[1].mb <= 8
    BY <1>2, <1>4, MediaSetChecked, SpecFacts DEF AssetFits
  <2>2. Len(d.assets) = 1 /\ d.assets[1].kind = "IMAGE" =>
          (Fits <=> d.assets[1].mb <= 8)
    BY <1>2
  <2>3. CaptionIssues(d) = {} <=> d.caption \in {"none", "full"}
    BY <1>1, <1>4, CaptionChecked
  <2>4. d.alt # "too long" <=> d.alt \in {"none", "full"}
    BY <1>1 DEF AltTexts
  <2>5. Documented(d) <=>
          /\ d.granted /\ Fits /\ Len(d.assets) = 1 /\ d.assets[1].kind = "IMAGE"
          /\ d.caption \in {"none", "full"} /\ d.alt \in {"none", "full"}
          /\ d.people <= 3 /\ d.tags <= 20
    BY <1>4 DEF Documented
  <2> HIDE DEF Fits
  <2> QED BY <1>3, <1>4, <2>1, <2>2, <2>3, <2>4, <2>5 DEF Allowed
<1>5. CASE d.type = "CAROUSEL"
  <2>1. \A n \in DOMAIN d.assets : d.assets[n].kind = "IMAGE"
    BY <1>2, <1>5 DEF RefusedVideos
  <2>2. MediaSetIssues(d) = {} <=>
          Len(d.assets) \in 2 .. 10 /\ \A n \in DOMAIN d.assets : d.assets[n].mb <= 8
    BY <1>5, <2>1, MediaSetChecked, SpecFacts DEF AssetFits
  <2>3. Fits <=> \A n \in DOMAIN d.assets : d.assets[n].mb <= 8
    BY <2>1
  <2>4. CaptionIssues(d) = {} <=> d.caption \in {"none", "full"}
    BY <1>1, <1>5, CaptionChecked
  <2>5. d.alt # "too long" <=> d.alt \in {"none", "full"}
    BY <1>1 DEF AltTexts
  <2>6. Documented(d) <=>
          /\ d.granted /\ Fits /\ Len(d.assets) \in 2 .. 10
          /\ d.caption \in {"none", "full"} /\ d.alt \in {"none", "full"}
          /\ d.people <= 3 /\ d.tags <= 20
    BY <1>5 DEF Documented
  <2> HIDE DEF Fits
  <2> QED BY <1>3, <1>5, <2>2, <2>3, <2>4, <2>5, <2>6 DEF Allowed
<1>6. CASE d.type = "REELS"
  <2>1. MediaSetIssues(d) = {} <=>
          Len(d.assets) = 1 /\ d.assets[1].kind = "VIDEO" /\ d.assets[1].mb <= 1000
    BY <1>2, <1>6, MediaSetChecked, SpecFacts DEF AssetFits
  <2>2. Len(d.assets) = 1 => d.assets[1].mb <= 100
    BY <1>2, <1>6 DEF LargeReel
  <2>3. Len(d.assets) = 1 /\ d.assets[1].kind = "VIDEO" => Fits
    BY <1>2, <2>2
  <2>4. CaptionIssues(d) = {} <=> d.caption \in {"none", "full"}
    BY <1>1, <1>6, CaptionChecked
  <2>5. Documented(d) <=>
          /\ d.granted /\ Fits /\ Len(d.assets) = 1 /\ d.assets[1].kind = "VIDEO"
          /\ d.alt = "none"
          /\ d.caption \in {"none", "full"} /\ d.people <= 3 /\ d.tags <= 20
    BY <1>6 DEF Documented
  <2>6. Len(d.assets) = 1 => d.assets[1].mb <= 1000
    BY <1>2, <2>2
  <2>7. Allowed(d) <=>
          /\ CaptionIssues(d) = {} /\ MediaSetIssues(d) = {} /\ d.granted
          /\ d.people <= 3 /\ d.tags <= 20 /\ d.alt = "none"
    BY <1>6 DEF Allowed
  <2>8. Fits /\ Len(d.assets) = 1 /\ d.assets[1].kind = "VIDEO" <=>
          MediaSetIssues(d) = {}
    BY <2>1, <2>3, <2>6
  <2> HIDE DEF Fits
  <2> QED BY <1>3, <2>4, <2>5, <2>7, <2>8
<1>7. CASE d.type = "STORIES"
  <2>1. MediaSetIssues(d) = {} <=> Len(d.assets) = 1 /\ Fits
    <3>1. CASE d.assets[1].kind = "VIDEO"
      <4>1. MediaSetIssues(d) = {} <=> Len(d.assets) = 1 /\ d.assets[1].mb <= 100
        BY <1>2, <1>7, <3>1, MediaSetChecked, SpecFacts DEF AssetFits
      <4> QED BY <1>2, <3>1, <4>1
    <3>2. CASE d.assets[1].kind = "IMAGE"
      <4>1. MediaSetIssues(d) = {} <=> Len(d.assets) = 1 /\ d.assets[1].mb <= 8
        BY <1>2, <1>7, <3>2, MediaSetChecked, SpecFacts DEF AssetFits
      <4> QED BY <1>2, <3>2, <4>1
    <3> QED BY <1>2, <3>1, <3>2
  <2>2. CaptionIssues(d) = {} <=> d.caption = "none"
    BY <1>1, <1>7, CaptionChecked
  <2>3. Documented(d) <=>
          /\ d.granted /\ Fits /\ Len(d.assets) = 1 /\ d.business
          /\ d.caption = "none" /\ d.alt = "none" /\ d.people = 0 /\ d.tags <= 20
    BY <1>1, <1>7 DEF Documented
  <2>4. Allowed(d) <=>
          /\ CaptionIssues(d) = {} /\ MediaSetIssues(d) = {} /\ d.granted
          /\ d.business /\ d.people = 0 /\ d.tags <= 20 /\ d.alt = "none"
    <3>1. d.people = 0 => d.people <= 3
      OBVIOUS
    <3> QED BY <1>7, <3>1, Zenon DEF Allowed
  <2> HIDE DEF Fits
  <2> QED BY <1>3, <2>1, <2>2, <2>3, <2>4
<1> QED BY <1>1, <1>4, <1>5, <1>6, <1>7 DEF MediaTypes

-----------------------------------------------------------------------------
(* The containers. *)

\* From the check on there is a content with media, and the stage tells what the
\* check found.
Checked ==
  /\ stage = "draft" => containers = << >>
  /\ stage # "draft" => /\ draft \in Publishable
                        /\ stage = "refused" <=> PublishIssues(draft) # {}

\* Of a reel or a carousel, the last container alone can be unready, as long as
\* it is polled.
ReadyBefore ==
  draft.type \in {"REELS", "CAROUSEL"} =>
    /\ stage \in {"checked", "published"} =>
         \A n \in DOMAIN containers : containers[n].status = "FINISHED"
    /\ stage = "polling" =>
         \A n \in DOMAIN containers : n # Made => containers[n].status = "FINISHED"

MediaInv ==
  /\ MediaTypeOK /\ containers \in Seq(Container)
  /\ stage = "polling" => Made # 0
  /\ Checked /\ ReadyBefore

LEMMA MediaInvInit == MediaInit => MediaInv
BY MediaConstants DEF MediaInit, MediaInv, MediaTypeOK, Checked, ReadyBefore

LEMMA MadeFacts ==
  ASSUME containers \in Seq(Container)
  PROVE  /\ Made \in Nat /\ DOMAIN containers = 1 .. Made
         /\ \A n \in DOMAIN containers : containers[n] \in Container
BY DEF Made

\* One container more.
LEMMA OneMore ==
  ASSUME containers \in Seq(Container), NEW c \in Container,
         containers' = Append(containers, c)
  PROVE  /\ containers' \in Seq(Container) /\ Made' = Made + 1 /\ Made \in Nat
         /\ DOMAIN containers' = 1 .. Made + 1
         /\ \A n \in DOMAIN containers' : containers'[n] \in Container
         /\ \A n \in 1 .. Made : containers'[n] = containers[n]
         /\ containers'[Made + 1] = c
BY DEF Made

LEMMA KeptByCheck ==
  ASSUME MediaInv, Check
  PROVE  MediaInv'
<1>1. /\ stage = "draft" /\ draft' \in Publishable /\ issues' = PublishIssues(draft')
      /\ stage' = (IF issues' = {} THEN "checked" ELSE "refused")
      /\ containers' = containers /\ polls' = polls
  BY DEF Check, Publishable
<1>2. containers = << >> /\ MediaTypeOK
  BY <1>1 DEF MediaInv, Checked
<1>3. stage' \in {"checked", "refused"} /\ (stage' = "refused" <=> issues' # {})
  BY <1>1
<1>4. MediaTypeOK' /\ containers' \in Seq(Container)
  BY <1>1, <1>2, <1>3 DEF MediaTypeOK, Publishable
<1>5. Checked'
  BY <1>1, <1>3 DEF Checked
<1>6. ReadyBefore' /\ stage' # "polling"
  BY <1>1, <1>2, <1>3 DEF ReadyBefore
<1> QED BY <1>4, <1>5, <1>6 DEF MediaInv

\* The steps after the check leave the content and what was found in it alone.
LEMMA CheckedStays ==
  ASSUME Checked, stage \notin {"draft", "refused"}, stage' \notin {"draft", "refused"},
         draft' = draft
  PROVE  Checked'
BY DEF Checked

LEMMA KeptByCreate ==
  ASSUME MediaInv, CreateContainer \/ CreateParent
  PROVE  MediaInv'
<1>1. /\ MediaTypeOK /\ containers \in Seq(Container) /\ Checked /\ ReadyBefore
      /\ stage = "checked" /\ draft' = draft
  BY DEF MediaInv, CreateContainer, CreateParent
<1>2. ASSUME NEW c \in Container, containers' = Append(containers, c),
             \/ /\ stage' = "polling"
                /\ polls' = 0
             \/ /\ stage' = "checked"
                /\ draft.type \in {"REELS", "CAROUSEL"} => c.status = "FINISHED"
                /\ polls' = 0 \/ polls' = polls
      PROVE  MediaInv'
  <2>1. /\ containers' \in Seq(Container) /\ Made' = Made + 1 /\ Made \in Nat
        /\ DOMAIN containers' = 1 .. Made + 1
        /\ \A n \in DOMAIN containers' : containers'[n] \in Container
        /\ \A n \in 1 .. Made : containers'[n] = containers[n]
        /\ containers'[Made + 1] = c
    BY <1>1, <1>2, OneMore
  <2>2. MediaTypeOK'
    BY <1>1, <1>2, <2>1, MediaConstants DEF MediaTypeOK
  <2>3. Checked'
    BY <1>1, <1>2, CheckedStays
  <2>4. ReadyBefore'
    <3> SUFFICES ASSUME draft.type \in {"REELS", "CAROUSEL"}, NEW n \in 1 .. Made + 1,
                        stage' = "polling" => n # Made + 1
                 PROVE  containers'[n].status = "FINISHED"
      BY <1>1, <1>2, <2>1 DEF ReadyBefore
    <3>1. CASE n = Made + 1
      BY <1>2, <2>1, <3>1
    <3>2. CASE n # Made + 1
      <4>1. n \in 1 .. Made /\ n \in DOMAIN containers
        BY <1>1, <2>1, <3>2, MadeFacts
      <4> QED BY <1>1, <2>1, <4>1 DEF ReadyBefore
    <3> QED BY <3>1, <3>2
  <2>5. Made' # 0
    BY <2>1
  <2> QED BY <2>1, <2>2, <2>3, <2>4, <2>5 DEF MediaInv
<1>3. CASE CreateContainer
  <2> DEFINE video == draft.assets[Made + 1].kind = "VIDEO"
             c == [video |-> video, status |-> IF video THEN "IN_PROGRESS" ELSE "FINISHED"]
  <2>1. /\ containers' = Append(containers, c) /\ polls' = 0
        /\ stage' = (IF draft.type = "REELS" \/ (draft.type = "CAROUSEL" /\ video)
                     THEN "polling" ELSE "checked")
    BY <1>3 DEF CreateContainer
  <2>2. c \in Container
    BY DEF Container
  <2>3. stage' = "checked" /\ draft.type \in {"REELS", "CAROUSEL"} => c.status = "FINISHED"
    BY <2>1
  <2> HIDE DEF c
  <2>4. stage' = "polling" \/ stage' = "checked"
    BY <2>1
  <2> QED BY <1>2, <2>1, <2>2, <2>3, <2>4
<1>4. CASE CreateParent
  <2>1. [video |-> FALSE, status |-> "FINISHED"] \in Container
    BY DEF Container
  <2> QED BY <1>1, <1>2, <1>4, <2>1 DEF CreateParent
<1> QED BY <1>3, <1>4

LEMMA KeptByProcessed ==
  ASSUME MediaInv, NEW n \in DOMAIN containers, NEW status \in {"FINISHED", "ERROR"},
         Processed(n, status)
  PROVE  MediaInv'
<1>1. /\ MediaTypeOK /\ containers \in Seq(Container) /\ Checked /\ ReadyBefore
      /\ stage = "polling" => Made # 0
  BY DEF MediaInv
<1>2. /\ containers[n].status = "IN_PROGRESS"
      /\ containers' = [containers EXCEPT ![n] = [@ EXCEPT !.status = status]]
      /\ draft' = draft /\ stage' = stage /\ polls' = polls
  BY DEF Processed
<1>3. /\ Made \in Nat /\ DOMAIN containers = 1 .. Made
      /\ \A m \in DOMAIN containers : containers[m] \in Container
  BY <1>1, MadeFacts
<1>4. [containers[n] EXCEPT !.status = status] \in Container
  BY <1>3 DEF Container
<1>5. /\ containers' \in Seq(Container) /\ Made' = Made
      /\ DOMAIN containers' = DOMAIN containers
      /\ \A m \in DOMAIN containers : m # n => containers'[m] = containers[m]
      /\ \A m \in DOMAIN containers' : containers'[m] \in Container
  <2>1. containers' \in [1 .. Made -> Container]
    BY <1>2, <1>3, <1>4
  <2>2. containers' \in Seq(Container) /\ Len(containers') = Made
    BY <1>3, <2>1
  <2> QED BY <1>2, <1>3, <2>1, <2>2 DEF Made
<1>6. MediaTypeOK'
  BY <1>1, <1>2, <1>5 DEF MediaTypeOK
<1>7. Checked'
  <2>1. stage # "draft"
    BY <1>1, <1>3 DEF Checked
  <2> QED BY <1>1, <1>2, <2>1 DEF Checked
<1>8. ReadyBefore'
  <2> SUFFICES ASSUME draft.type \in {"REELS", "CAROUSEL"}, NEW m \in DOMAIN containers,
                      stage \in {"checked", "published"}
                        \/ (stage = "polling" /\ m # Made)
               PROVE  containers'[m].status = "FINISHED"
    BY <1>2, <1>5 DEF ReadyBefore
  <2>1. containers[m].status = "FINISHED"
    BY <1>1 DEF ReadyBefore
  <2>2. m # n
    BY <1>2, <2>1
  <2> QED BY <1>5, <2>1, <2>2
<1> QED BY <1>1, <1>2, <1>5, <1>6, <1>7, <1>8 DEF MediaInv

LEMMA KeptByPoll ==
  ASSUME MediaInv, Poll
  PROVE  MediaInv'
<1>1. /\ MediaTypeOK /\ containers \in Seq(Container) /\ Checked /\ ReadyBefore
      /\ stage = "polling" /\ Made # 0
  BY DEF MediaInv, Poll
<1>2. /\ Made \in Nat /\ DOMAIN containers = 1 .. Made
      /\ Made \in DOMAIN containers /\ containers[Made] \in Container
  BY <1>1, MadeFacts
<1> DEFINE status == containers[Made].status
<1>3. /\ stage' = (CASE status = "FINISHED" -> "checked"
                      [] status = "ERROR" -> "failed"
                      [] OTHER -> IF polls = MaxPolls THEN "failed" ELSE "polling")
      /\ polls' = (IF stage' = "polling" THEN polls + 1 ELSE polls)
      /\ draft' = draft /\ containers' = containers
  BY DEF Poll
<1>4. status \in {"IN_PROGRESS", "FINISHED", "ERROR"}
  BY <1>2 DEF Container
<1> HIDE DEF status
<1>5. /\ stage' \in {"checked", "failed", "polling"}
      /\ stage' = "checked" => status = "FINISHED"
      /\ stage' = "polling" => polls # MaxPolls
  BY <1>3, <1>4
<1>6. polls' \in 0 .. MaxPolls
  BY <1>1, <1>3, <1>5, MediaConstants DEF MediaTypeOK
<1>7. MediaTypeOK'
  BY <1>1, <1>3, <1>5, <1>6 DEF MediaTypeOK
<1>8. Checked'
  BY <1>1, <1>3, <1>5, CheckedStays
<1>9. ReadyBefore' /\ Made' = Made
  BY <1>1, <1>3, <1>5 DEF ReadyBefore, Made, status
<1> QED BY <1>1, <1>3, <1>7, <1>8, <1>9 DEF MediaInv

LEMMA KeptByEnding ==
  ASSUME MediaInv, Finalize \/ CallFails
  PROVE  MediaInv'
<1>1. /\ MediaTypeOK /\ containers \in Seq(Container) /\ Checked /\ ReadyBefore
      /\ stage \in {"checked", "polling"} /\ draft' = draft
      /\ containers' = containers /\ polls' = polls
      /\ stage' = "failed" \/ (stage = "checked" /\ stage' = "published")
  BY DEF MediaInv, Finalize, CallFails
<1>2. MediaTypeOK'
  BY <1>1 DEF MediaTypeOK
<1>3. Checked'
  BY <1>1, CheckedStays
<1>4. ReadyBefore' /\ stage' # "polling"
  BY <1>1 DEF ReadyBefore
<1> QED BY <1>1, <1>2, <1>3, <1>4 DEF MediaInv

LEMMA MediaInvNext == MediaInv /\ [MediaNext]_mediaVars => MediaInv'
<1> SUFFICES ASSUME MediaInv, [MediaNext]_mediaVars
             PROVE  MediaInv'
  OBVIOUS
<1>1. CASE UNCHANGED mediaVars
  BY <1>1 DEF mediaVars, MediaInv, MediaTypeOK, Checked, ReadyBefore, Made
<1>2. CASE MediaNext
  BY <1>2, KeptByCheck, KeptByCreate, KeptByPoll, KeptByEnding, KeptByProcessed
     DEF MediaNext
<1> QED BY <1>1, <1>2

LEMMA MediaInvariant == MediaSpec => []MediaInv
BY MediaInvInit, MediaInvNext, PTL DEF MediaSpec

\* The content, the stage and the containers keep their types, and no poll is
\* made past the deadline.
THEOREM MediaTypesHold == MediaSpec => []MediaTypeOK
<1>1. MediaInv => MediaTypeOK
  BY DEF MediaInv
<1> QED BY <1>1, MediaInvariant, PTL

\* media_publish is never tried on a reel or a carousel of which a video is still
\* being processed, however many files and polls there may be (_poll_container).
THEOREM ReelsAreReady == MediaSpec => []VideosAreReady
<1>1. MediaInv => VideosAreReady
  BY DEF MediaInv, ReadyBefore, VideosAreReady
<1> QED BY <1>1, MediaInvariant, PTL

\* For any numbers and sizes of files: the checks of media_rules.py let pass what
\* the documented tables allow and nothing else, but for the carousels with
\* videos, the large reels and the videos that are too short or too long.
THEOREM ChecksMatchTheTables == MediaSpec => []AcceptsWhatIsDocumented
<1>1. MediaInv => AcceptsWhatIsDocumented
  BY ChecksAreTheTables DEF MediaInv, Checked, AcceptsWhatIsDocumented
<1> QED BY <1>1, MediaInvariant, PTL
-----------------------------------------------------------------------------
(* The five modules together. *)

\* A behaviour of the instance is a behaviour of each of the five modules: what
\* holds of a module alone holds of it in the instance.
THEOREM ServicesAreSeparate ==
  Spec => QuotaSpec /\ AISpec /\ LimiterSpec /\ WebhookSpec /\ MediaSpec
<1>1. Init => QuotaInit /\ AIInit /\ LimiterInit /\ WebhookInit /\ MediaInit
  BY DEF Init
<1>2. [Next]_<<part, quotaVars, aiVars, limiterVars, webhookVars, mediaVars>> =>
        /\ [QuotaNext]_quotaVars /\ [AINext]_aiVars /\ [LimiterNext]_limiterVars
        /\ [WebhookNext]_webhookVars /\ [MediaNext]_mediaVars
  BY DEF Next
<1> QED
  BY <1>1, <1>2, PTL
  DEF Spec, QuotaSpec, AISpec, LimiterSpec, WebhookSpec, MediaSpec

\* Rows, transactions and histories of the five modules keep their types.
THEOREM ServicesTypes == Spec => []TypeOK
<1>1. QuotaTypeOK /\ AITypeOK /\ LimiterTypeOK /\ WebhookTypeOK /\ MediaTypeOK => TypeOK
  BY DEF TypeOK
<1> QED
  BY <1>1, ServicesAreSeparate, QuotaTypes, AITypes, LimiterTypes, WebhookTypes,
     MediaTypesHold, PTL

\* Everything that is proved of a module alone holds while the others run beside
\* it: the guards of the quota and of the AI budget are passed by what runs at
\* once and no more, counters lose nothing but to stale commits, both limiters
\* admit and refuse as they should, deliveries are stored once, and what is not
\* ready is not published.
THEOREM ServicesHold ==
  Spec => [](/\ QuotaOvershootIsBounded /\ SerialCountsAreExact
             /\ SpendingIsBounded /\ UsageMatchesHistory
             /\ AdmissionsAreBounded /\ RefusalsEnd
             /\ DeliveriesAreStored
             /\ AcceptsWhatIsDocumented /\ VideosAreReady)
BY ServicesAreSeparate, OvershootIsBounded, CountsAreExact, BudgetHolds, UsageAgrees,
   AdmissionsBounded, RefusalsAreOver, DeliveriesAreKept,
   ChecksMatchTheTables, ReelsAreReady, PTL

\* Beside the other four modules, too, every delivery that is committed is
\* delivered in one step of WebhookInbox.
THEOREM ServicesImplementInbox == Spec => ImplementsInbox
BY ServicesAreSeparate, DeliveriesAreAtomic

=============================================================================
