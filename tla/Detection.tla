------------------------------ MODULE Detection ------------------------------
(***************************************************************************)
(* Looking at the picture: OpenCvImageCompare.detect and                   *)
(* TesseractOCR.detect on the frame FrameCacheService holds, the cache of  *)
(* Mats, and the preprocessors.  Detections run on the script's thread, on *)
(* pool threads (PGConScriptEngineV2.detect, async) and on RENDER_SCREEN   *)
(* (the debug window), all of them on the Mat the cache keeps for a frame: *)
(* deepSplit and deepCopy return a submat, which shares its memory.        *)
(*                                                                         *)
(* Of a pixel the model keeps which detections have written it, and of a   *)
(* detection whose writes were in the pixels it has read.                  *)
(***************************************************************************)
EXTENDS Naturals, Sequences

CONSTANTS
    Kinds,           \* of detections: "compare", "ocr"
    Pixels,          \* of every frame
    Near,            \* the pixels a smoothing filter reads beside each one
    Areas,           \* sets of pixels that detections look at
    FilterLists,     \* the preprocessors that are enabled, in their order
    Channels,        \* the number of channels of each frame
    MaxFrames,       \* bound on the frames
    MaxDetections    \* bound on the detections

Frames == 1 .. MaxFrames
Detections == 1 .. MaxDetections
Mats == Detections      \* a Mat has the number of the detection that made it

(* "colour": the channels filter and the colour picker; "gray": threshold and
   normalisation; "blur": averaging, Gaussian and bilateral smoothing;
   "resize": resizing, and the median filter. *)
Filters == {"colour", "gray", "blur", "resize"}

ASSUME BoundsAssumption == /\ MaxFrames \in Nat /\ MaxDetections \in Nat
                           /\ Areas \subseteq SUBSET Pixels /\ {} \notin Areas
                           /\ Kinds \subseteq {"compare", "ocr"}
                           /\ FilterLists \subseteq Seq(Filters)
                           /\ Near \in [Pixels -> SUBSET Pixels]
                           /\ Channels \in [Frames -> {1, 3, 4}]

Params == [kind : Kinds, area : Areas, filters : FilterLists]

VARIABLES
    frame,       \* FrameCacheService.cachedFrame, 0 for null
    matCache,    \* the Mat cached for each frame, 0 for none
    memory,      \* of each Mat and pixel: the detections that have written it
    step,        \* position of each detection
    param,       \* its parameter
    got,         \* the frame it examines (result.cachedFrame)
    target,      \* the Mat it works on, 0 when it has made one of its own
    applied,     \* how many of its filters have been applied
    writing,     \* pixels its current filter has still to write
    met,         \* history: whose writes were in the pixels it has read
    lock,        \* the detection inside TesseractOCR.getText, 0 for none
    image,       \* the detection whose image the TessBaseAPI holds
    text,        \* of each detection: whose text it was given, 0 for ""
    confidence   \* and whose confidence, 0 for 0

frameVars == <<frame, matCache, memory>>
detectVars == <<step, param, got, target, applied, writing, met>>
ocrVars == <<lock, image, text, confidence>>
detectionVars == <<frameVars, detectVars, ocrVars>>

Steps == {"idle", "getImage", "getTarget", "filter", "write", "getText",
          "setImage", "getUTF8Text", "meanTextConf", "done", "failed"}
NoParam == [kind |-> "compare", area |-> {}, filters |-> <<>>]

DetectionTypeOK ==
    /\ frame \in 0 .. MaxFrames
    /\ matCache \in [Frames -> Mats \cup {0}]
    /\ memory \in [Mats -> [Pixels -> SUBSET Detections]]
    /\ step \in [Detections -> Steps]
    /\ param \in [Detections -> Params \cup {NoParam}]
    /\ got \in [Detections -> Frames \cup {0}]
    /\ target \in [Detections -> Mats \cup {0}]
    /\ applied \in [Detections -> Nat]
    /\ writing \in [Detections -> SUBSET Pixels]
    /\ met \in [Detections -> SUBSET Detections]
    /\ lock \in Detections \cup {0}
    /\ image \in Detections \cup {0}
    /\ text \in [Detections -> Detections \cup {0}]
    /\ confidence \in [Detections -> Detections \cup {0}]

DetectionInit ==
    /\ frame = 0
    /\ matCache = [f \in Frames |-> 0]
    /\ memory = [m \in Mats |-> [p \in Pixels |-> {}]]
    /\ step = [d \in Detections |-> "idle"]
    /\ param = [d \in Detections |-> NoParam]
    /\ got = [d \in Detections |-> 0]
    /\ target = [d \in Detections |-> 0]
    /\ applied = [d \in Detections |-> 0]
    /\ writing = [d \in Detections |-> {}]
    /\ met = [d \in Detections |-> {}]
    /\ lock = 0 /\ image = 0
    /\ text = [d \in Detections |-> 0]
    /\ confidence = [d \in Detections |-> 0]

-----------------------------------------------------------------------------
(* setFrame *)
SetFrame ==
    /\ frame < MaxFrames
    /\ frame' = frame + 1
    /\ UNCHANGED <<matCache, memory, detectVars, ocrVars>>

(* Size and age limit the cache of Mats; whoever holds one keeps it. *)
Evict(f) ==
    /\ matCache[f] # 0
    /\ matCache' = [matCache EXCEPT ![f] = 0]
    /\ UNCHANGED <<frame, memory, detectVars, ocrVars>>

Goto(d, from, to) ==
    /\ step[d] = from
    /\ step' = [step EXCEPT ![d] = to]

(* detect(param) is called; detections are numbered in that order. *)
Detect(d, p) ==
    /\ Goto(d, "idle", "getImage")
    /\ \A e \in 1 .. (d - 1) : step[e] # "idle"
    /\ param' = [param EXCEPT ![d] = p]
    /\ UNCHANGED <<frameVars, got, target, applied, writing, met, ocrVars>>

(* getImage(); a null frame throws in getTarget. *)
GetImage(d) ==
    /\ Goto(d, "getImage", IF frame = 0 THEN "failed" ELSE "getTarget")
    /\ got' = [got EXCEPT ![d] = frame]
    /\ UNCHANGED <<frameVars, param, target, applied, writing, met, ocrVars>>

(* getTarget: the Mat comes from the cache, which makes it when it is absent,
   and the target is a part of it whether a copy was asked for or not. *)
GetTarget(d) ==
    /\ Goto(d, "getTarget", "filter")
    /\ \/ /\ matCache[got[d]] # 0
          /\ target' = [target EXCEPT ![d] = matCache[got[d]]]
          /\ UNCHANGED matCache
       \/ /\ matCache[got[d]] = 0
          /\ matCache' = [matCache EXCEPT ![got[d]] = d]
          /\ target' = [target EXCEPT ![d] = d]
    /\ UNCHANGED <<frame, memory, param, got, applied, writing, met, ocrVars>>

-----------------------------------------------------------------------------
(* tryPreProcess.  What a filter does to the Mat of a frame depends on its
   channels: the colour filters ignore a Mat that has not three of them, and
   toGray returns a Mat that has only one as it is.                         *)

InPlace(filter, channels) ==
    \/ filter = "colour" /\ channels = 3
    \/ filter = "gray" /\ channels = 1

Copies(filter, channels) ==
    \/ filter \in {"blur", "resize"}
    \/ filter = "gray" /\ channels # 1

(* Smoothing a submat takes in the pixels around it. *)
Around(area) == area \cup UNION {Near[p] : p \in area}

(* Detection d reads an area of the Mat of its frame. *)
Meets(d, area) ==
    met' = [met EXCEPT ![d] = @ \cup UNION {memory[target[d]][p] : p \in area}]

NextFilter(d, applies(_, _)) ==
    /\ step[d] = "filter"
    /\ target[d] # 0
    /\ applied[d] < Len(param[d].filters)
    /\ applies(param[d].filters[applied[d] + 1], Channels[got[d]])
    /\ applied' = [applied EXCEPT ![d] = @ + 1]
    /\ UNCHANGED <<frameVars, param, got, ocrVars>>

(* The filter reads its area and then writes into the Mat it is given, *)
PreProcessInPlace(d) ==
    /\ NextFilter(d, InPlace)
    /\ step' = [step EXCEPT ![d] = "write"]
    /\ writing' = [writing EXCEPT ![d] = param[d].area]
    /\ Meets(d, param[d].area)
    /\ UNCHANGED target

(* pixel by pixel; *)
WritePixel(d) ==
    /\ step[d] = "write"
    /\ \E p \in writing[d] :
          /\ writing' = [writing EXCEPT ![d] = @ \ {p}]
          /\ Meets(d, {p})
          /\ memory' = [memory EXCEPT ![target[d]][p] = @ \cup {d}]
    /\ step' = [step EXCEPT ![d] = IF writing'[d] = {} THEN "filter" ELSE "write"]
    /\ UNCHANGED <<frame, matCache, param, got, target, applied, ocrVars>>

(* Mutant: toGray returns the Mat it is given, and the threshold is applied
   to that. *)
PreProcessNotCopying(d) ==
    /\ NextFilter(d, Copies)
    /\ step' = [step EXCEPT ![d] = "write"]
    /\ writing' = [writing EXCEPT ![d] = param[d].area]
    /\ Meets(d, param[d].area)
    /\ UNCHANGED target

(* or makes a new one, *)
PreProcessCopying(d) ==
    /\ NextFilter(d, Copies)
    /\ Meets(d, IF param[d].filters[applied[d] + 1] = "blur"
                THEN Around(param[d].area) ELSE param[d].area)
    /\ target' = [target EXCEPT ![d] = 0]
    /\ UNCHANGED <<step, writing>>

Ignores(filter, channels) == ~InPlace(filter, channels) /\ ~Copies(filter, channels)

(* or returns the Mat as it was. *)
PreProcessNothing(d) ==
    /\ NextFilter(d, Ignores)
    /\ UNCHANGED <<step, target, writing, met>>

(* What the filters after a copying one do, nobody else can see. *)
PreProcessOwnMat(d) ==
    /\ step[d] = "filter"
    /\ target[d] = 0
    /\ applied[d] < Len(param[d].filters)
    /\ applied' = [applied EXCEPT ![d] = Len(param[d].filters)]
    /\ UNCHANGED <<frameVars, step, param, got, target, writing, met, ocrVars>>

(* doDetect, or matToPix, which copies the pixels for OCR; the target is not
   used any more. *)
Read(d) ==
    /\ Goto(d, "filter", IF param[d].kind = "ocr" THEN "getText" ELSE "done")
    /\ applied[d] = Len(param[d].filters)
    /\ \/ target[d] # 0 /\ Meets(d, param[d].area)
       \/ target[d] = 0 /\ UNCHANGED met
    /\ target' = [target EXCEPT ![d] = 0]
    /\ UNCHANGED <<frameVars, param, got, applied, writing, ocrVars>>

-----------------------------------------------------------------------------
(* TesseractOCR.getText, a synchronized method of the one TesseractOCR.     *)

(* Mutant: getText is not synchronized. *)
GetTextUnlocked(d) ==
    /\ Goto(d, "getText", "setImage")
    /\ UNCHANGED <<frameVars, param, got, target, applied, writing, met, ocrVars>>

GetText(d) ==
    /\ Goto(d, "getText", "setImage")
    /\ lock = 0
    /\ lock' = d
    /\ UNCHANGED <<frameVars, param, got, target, applied, writing, met,
                   image, text, confidence>>

SetImage(d) ==
    /\ Goto(d, "setImage", "getUTF8Text")
    /\ image' = d
    /\ UNCHANGED <<frameVars, param, got, target, applied, writing, met,
                   lock, text, confidence>>

GetUTF8Text(d) ==
    /\ Goto(d, "getUTF8Text", "meanTextConf")
    /\ text' = [text EXCEPT ![d] = image]
    /\ UNCHANGED <<frameVars, param, got, target, applied, writing, met,
                   lock, image, confidence>>

MeanTextConf(d) ==
    /\ Goto(d, "meanTextConf", "done")
    /\ confidence' = [confidence EXCEPT ![d] = image]
    /\ lock' = 0
    /\ UNCHANGED <<frameVars, param, got, target, applied, writing, met,
                   image, text>>

(* The catch clause: whatever throws, the answer is Pair.create("", 0). *)
OcrError(d) ==
    /\ step[d] \in {"setImage", "getUTF8Text", "meanTextConf"}
    /\ step' = [step EXCEPT ![d] = "done"]
    /\ text' = [text EXCEPT ![d] = 0]
    /\ confidence' = [confidence EXCEPT ![d] = 0]
    /\ lock' = 0
    /\ UNCHANGED <<frameVars, param, got, target, applied, writing, met, image>>

-----------------------------------------------------------------------------
PreProcess(d) ==
    \/ PreProcessInPlace(d) \/ WritePixel(d) \/ PreProcessCopying(d)
    \/ PreProcessNothing(d) \/ PreProcessOwnMat(d)

Ocr(d) ==
    \/ GetText(d) \/ SetImage(d) \/ GetUTF8Text(d) \/ MeanTextConf(d) \/ OcrError(d)

Detecting(d) ==
    GetImage(d) \/ GetTarget(d) \/ PreProcess(d) \/ Read(d) \/ Ocr(d)

DetectionNext ==
    \/ SetFrame
    \/ \E f \in Frames : Evict(f)
    \/ \E d \in Detections : (\E p \in Params : Detect(d, p)) \/ Detecting(d)

DetectionSpec == DetectionInit /\ [][DetectionNext]_detectionVars

-----------------------------------------------------------------------------
(* Filter i of a detection is given the Mat of the frame. *)
OnFrame(d, i) ==
    \A j \in 1 .. (i - 1) : ~Copies(param[d].filters[j], Channels[got[d]])

(* The parameter makes a detection write into that Mat, *)
WritesFrame(d) ==
    \E i \in DOMAIN param[d].filters :
        OnFrame(d, i) /\ InPlace(param[d].filters[i], Channels[got[d]])

(* and read pixels of it that are not its own. *)
ReadsAround(d) ==
    \E i \in DOMAIN param[d].filters : OnFrame(d, i) /\ param[d].filters[i] = "blur"

Reach(d) == IF ReadsAround(d) THEN Around(param[d].area) ELSE param[d].area

(* Two detections of one frame; one writes a pixel that the other may read. *)
Interferes(e, d) ==
    /\ got[d] # 0 /\ got[e] = got[d]
    /\ WritesFrame(e)
    /\ param[e].area \cap Reach(d) # {}

(* A detection never sees what another has made of the picture, unless both
   look at the same frame, a filter of the other works in place on the frame's
   Mat, because getTarget does not copy (MatUtil.deepSplit, deepCopy), and the
   area of the other meets its own, or the border that smoothing takes in
   around its own (SmoothingPreProcessor).  Frames, areas that are apart, and
   filters that copy first keep detections apart, whatever the cache evicts. *)
OnlyInPlaceFiltersInterfere ==
    \A d \in Detections : \A e \in met[d] \ {d} : Interferes(e, d)

(* The text and the confidence a detection reports are both those of its own
   image, or both empty after an exception (getText), although all detections
   share the TessBaseAPI of a method. *)
OcrAnswersItsOwnImage ==
    \A d \in Detections : step[d] = "done" /\ param[d].kind = "ocr" =>
        text[d] \in {0, d} /\ confidence[d] = text[d]

-----------------------------------------------------------------------------
(* The inductive invariant.                                                 *)

(* The detection that has the lock is the one inside getText, and what the
   TessBaseAPI holds from setImage on is its image. *)
OcrInv ==
    \A d \in Detections :
        /\ step[d] \in {"setImage", "getUTF8Text", "meanTextConf"} => lock = d
        /\ step[d] \in {"getUTF8Text", "meanTextConf"} => image = d
        /\ step[d] = "meanTextConf" => text[d] = d

(* A detection that has found its Mat. *)
Past(d) == step[d] \notin {"idle", "getImage", "getTarget", "failed"}

(* A detection works on a Mat of its frame until its first copying filter, and
   writes only what its parameter says. *)
Working(d) ==
    /\ step[d] = "getTarget" \/ Past(d) => got[d] \in Frames
    /\ ~Past(d) => applied[d] = 0 /\ target[d] = 0
    /\ step[d] = "write" => /\ target[d] # 0 /\ WritesFrame(d)
                            /\ writing[d] # {} /\ writing[d] \subseteq param[d].area
    /\ step[d] # "write" => writing[d] = {}
    /\ target[d] # 0 => /\ Past(target[d]) /\ got[target[d]] = got[d]
                        /\ OnFrame(d, applied[d] + 1)

(* A Mat in the cache is that of its frame. *)
CacheInv ==
    \A f \in Frames : matCache[f] # 0 => Past(matCache[f]) /\ got[matCache[f]] = f

(* Who has written a pixel of a Mat looks at the frame of that Mat, and at
   that pixel, and has a filter that works in place. *)
MemoryInv ==
    \A m \in Mats, p \in Pixels : \A e \in memory[m][p] :
        /\ Past(m) /\ Past(e) /\ got[e] = got[m]
        /\ WritesFrame(e) /\ p \in param[e].area

MetInv == \A d \in Detections : \A e \in met[d] : Past(d) /\ Past(e)

DetectionInv ==
    /\ DetectionTypeOK
    /\ OcrInv
    /\ OcrAnswersItsOwnImage
    /\ \A d \in Detections : Working(d)
    /\ CacheInv
    /\ MemoryInv
    /\ MetInv
    /\ OnlyInPlaceFiltersInterfere
=============================================================================
