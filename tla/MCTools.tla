-------------------------------- MODULE MCTools --------------------------------
(* What needs no model of its neighbours, each part in behaviours of its own:   *)
(* the tools, the start-up's plans, and the texts before they are synthesized.  *)
EXTENDS LibraryPublish, PinUpdate, VoiceUsage, HostPlan, TokenSplit, ModelTables,
        ClauseDetector, TtsStream

VARIABLE part

tools_vars == <<publish_vars, pin_vars, usage_vars, host_vars, split_vars,
                table_vars, detectorVars, handlerVars, part>>

SupportedVariants == <<"compat", "avx2">>
SpeechWords == {<<"a">>, <<"a", "b">>, <<"b", "a", "b">>, <<"c">>, <<"c", "a">>,
                <<"a", "b", "a", "b", "b">>}
SpeechTexts == {FoldLeft(LAMBDA t, w : IF t = <<>> THEN w ELSE t \o <<Space>> \o w, <<>>, words) :
                 words \in SeqOf(SpeechWords, 3)}

\* A part that does not run stays in one of its initial states; the detector, where a text of
\* one character is split.
PublishIdle == /\ dst = [s \in Slots |-> None] /\ place = [u \in Unsupported |-> "gone"]
               /\ compat = FALSE /\ pid = (CHOOSE p \in Pids : TRUE) /\ PublishInit
PinIdle == /\ published = [c \in SttPins \cup ZeroPins \cup NghiPins |->
                            IF c \in {"configS", "configT"} THEN 4 ELSE 2]
           /\ asset = 1 /\ hash = FALSE /\ PinInit
UsageIdle == recent = <<>> /\ UsageInit
HostIdle == question = [kind |-> "none"] /\ answer = NoAnswer
SplitIdle == split_task = [text |-> <<>>, vocabulary |-> {}, limit |-> 1, opaque |-> FALSE] /\ SplitInit
TablesIdle == table_task = [kind |-> "none"] /\ table = Unread
DetectorIdle == /\ split_clauses = FALSE /\ block = TRUE /\ phase = "over"
                /\ received = <<"a">> /\ clauses = << <<received, <<>>>> >>
                /\ places = <<[from |-> 1, to |-> 1]>> /\ streamed = 0
                /\ left = 1 /\ buffer = <<>> /\ offset = 0

ToolsInit ==
  \/ part = "publish"
     /\ PinIdle /\ UsageIdle /\ HostIdle /\ SplitIdle /\ TablesIdle /\ DetectorIdle
     /\ StreamInit
     /\ PublishInit
  \/ part = "pins"
     /\ PublishIdle /\ UsageIdle /\ HostIdle /\ SplitIdle /\ TablesIdle /\ DetectorIdle
     /\ StreamInit
     /\ PinInit
  \/ part = "usage"
     /\ PublishIdle /\ PinIdle /\ HostIdle /\ SplitIdle /\ TablesIdle /\ DetectorIdle
     /\ StreamInit
     /\ UsageInit
  \/ part = "host"
     /\ PublishIdle /\ PinIdle /\ UsageIdle /\ SplitIdle /\ TablesIdle /\ DetectorIdle
     /\ StreamInit
     /\ HostInit
  \/ part = "split"
     /\ PublishIdle /\ PinIdle /\ UsageIdle /\ HostIdle /\ TablesIdle /\ DetectorIdle
     /\ StreamInit
     /\ SplitInit
  \/ part = "tables"
     /\ PublishIdle /\ PinIdle /\ UsageIdle /\ HostIdle /\ SplitIdle /\ DetectorIdle
     /\ StreamInit
     /\ TablesInit
  \/ part = "detector"
     /\ PublishIdle /\ PinIdle /\ UsageIdle /\ HostIdle /\ SplitIdle /\ TablesIdle
     /\ StreamInit
     /\ DetectorInit
  \/ part = "stream"
     /\ PublishIdle /\ PinIdle /\ UsageIdle /\ HostIdle /\ SplitIdle /\ TablesIdle
     /\ DetectorIdle
     /\ StreamInit

ToolsNext ==
  \/ part = "publish" /\ PublishNext
     /\ UNCHANGED <<pin_vars, usage_vars, host_vars, split_vars, table_vars,
                   detectorVars, handlerVars, part>>
  \/ part = "pins" /\ PinNext
     /\ UNCHANGED <<publish_vars, usage_vars, host_vars, split_vars, table_vars,
                   detectorVars, handlerVars, part>>
  \/ part = "usage" /\ UsageNext
     /\ UNCHANGED <<publish_vars, pin_vars, host_vars, split_vars, table_vars,
                   detectorVars, handlerVars, part>>
  \/ part = "host" /\ HostNext
     /\ UNCHANGED <<publish_vars, pin_vars, usage_vars, split_vars, table_vars,
                   detectorVars, handlerVars, part>>
  \/ part = "split" /\ SplitNext
     /\ UNCHANGED <<publish_vars, pin_vars, usage_vars, host_vars, table_vars,
                   detectorVars, handlerVars, part>>
  \/ part = "tables" /\ TablesNext
     /\ UNCHANGED <<publish_vars, pin_vars, usage_vars, host_vars, split_vars,
                   detectorVars, handlerVars, part>>
  \/ part = "detector" /\ DetectorNext
     /\ UNCHANGED <<publish_vars, pin_vars, usage_vars, host_vars, split_vars,
                   table_vars, handlerVars, part>>
  \/ part = "stream" /\ StreamNext
     /\ UNCHANGED <<publish_vars, pin_vars, usage_vars, host_vars, split_vars,
                   table_vars, detectorVars, part>>

ToolsSpec == ToolsInit /\ [][ToolsNext]_tools_vars
===============================================================================
