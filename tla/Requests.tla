------------------------------- MODULE Requests -------------------------------
(***************************************************************************)
(* The data of backend-python: what a request may ask (run.py checks it),  *)
(* the options of the Task built from it (task.py, task_info.py), the      *)
(* message WSConnection makes of them and the schema it must satisfy, and  *)
(* what nodes report.                                                      *)
(*                                                                         *)
(* A value is named by what the code tells apart: "null" is None or a key  *)
(* that may be left out, "missing" a key whose absence makes a difference, *)
(* "empty" an empty string, "other" a value of a type nobody expects.  An  *)
(* optional object is a set of one element at most; an empty object counts *)
(* as none, as in the code.                                                *)
(***************************************************************************)

StandardPipelines ==
  [prompt : {"null", "empty", "text", "list", "number"},
   model  : {"missing", "null", "text"},
   size   : {"null", "object", "other"},
   steps  : {"null", "number", "other"},
   extra  : BOOLEAN]   \* whether it has keys that StandardPipelineOptions lacks

ComfyPipelines ==
  [pipelineData : {"null", "empty", "text", "other"},
   pipelineDependencies : {"null", "object", "other"}]

Optional(S) == {{}} \cup {{s} : s \in S}

\* `permitted' is what verify says of the token, unless nobody asks it.
AllQueries ==
  [permitted : BOOLEAN,
   standardPipeline : Optional(StandardPipelines),
   comfyPipeline : Optional(ComfyPipelines)]

\* The prompt is not null, and len(prompt) raises.
HasNoLength(q) == \E s \in q.standardPipeline : s.prompt = "number"

\* check_data_and_state says no, whatever nodes are registered.
Refused(q) ==
  \/ ~q.permitted
  \/ q.standardPipeline \cup q.comfyPipeline = {}
  \/ \E s \in q.standardPipeline : s.prompt \in {"null", "empty"}
  \/ ~HasNoLength(q) /\ \E c \in q.comfyPipeline : c.pipelineData \in {"null", "empty"}

\* An exception of the check, or of StandardPipelineOptions(**standard_pipeline).
Raises(q) ==
  /\ ~Refused(q)
  /\ \/ HasNoLength(q)
     \/ \E s \in q.standardPipeline : s.model = "missing" \/ s.extra

Admitted(q) == ~Refused(q) /\ ~Raises(q)

\* build_task_from_query: the task_options of the new Task.
TaskOptions(q) ==
  [standard_pipeline |-> {[prompt |-> s.prompt, model |-> s.model,
                           size |-> s.size, steps |-> s.steps] : s \in q.standardPipeline},
   comfy_pipeline |-> {[pipeline_data |-> c.pipelineData,
                        pipeline_dependencies |-> c.pipelineDependencies]
                        : c \in q.comfyPipeline}]

\* The message that send_task makes of a task's options.
ClientTask(o) ==
  [options |-> o.standard_pipeline,
   comfyOptions |-> {[pipelineData |-> c.pipeline_data,
                      pipelineDependencies |-> c.pipeline_dependencies]
                      : c \in o.comfy_pipeline}]

\* TASK_SCHEMA.
ValidTask(m) ==
  /\ \A o \in m.options : /\ o.prompt = "text"
                          /\ o.model = "text"
                          /\ o.size \in {"null", "object"}
                          /\ o.steps \in {"null", "number"}
  /\ \A c \in m.comfyOptions : /\ c.pipelineData = "text"
                               /\ c.pipelineDependencies \in {"null", "object"}

Sendable(o) == ValidTask(ClientTask(o))

\* Messages of nodes about tasks, by what is read of them: `status' may be left out,
\* `error' is whether the message has that key.
AllReports ==
  [type : {"result", "error"}, status : {"none", "ready", "inProgress"}, error : BOOLEAN]

\* What generate_image answers with: an exception when a key it reads is missing.
ImageAnswer(m) ==
  CASE m.status = "ready" -> "images"
    [] m.status = "inProgress" /\ m.error -> "error"
    [] OTHER -> "raised"
===============================================================================
