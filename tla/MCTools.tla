------------------------------ MODULE MCTools ------------------------------
EXTENDS Limiter, MediaQueue, MigrationPackage, AccountTool, RecoveryRun,
        SamplePipeline, MessageMapper

Photo == [kind |-> "photo", size |-> 5, ext |-> "jpg"]
Paper(n) == [kind |-> "document", size |-> n, ext |-> "pdf"]
PhotosPage == [a1 |-> Photo, a2 |-> Photo, a3 |-> Paper(7)]
MCPages == {PhotosPage,
            [a1 |-> Paper(7), a2 |-> Paper(7), a3 |-> Paper(8)]}
MCAuthor == <<"s1", "s2", "s1">>
MCNames == <<"Ann", "Bob", "Anna">>
MCAlbum == <<1, 1, 0, 0>>
MCReply == <<0, 0, 2, 3>>
MCSender == <<1, 2, 0>>
MCFates == {{}, {"message"}, {"hour", "answer", "file id"}, {"file", "words", "date"},
            {"name", "file id", "date"}, {"header", "words", "file id"}}

VARIABLE turn    \* the component this behaviour is about

vars == <<turn, limiterVars, mediaVars, packageVars, toolVars, serviceVars,
          runVars, pipelineVars, mapperVars>>

Init ==
    /\ turn \in {"limiter", "media", "package", "tool", "recovery", "pipeline", "mapper"}
    /\ turn # "media" => page = PhotosPage
    /\ LimiterInit /\ MediaInit /\ PackageInit /\ ToolInit
    /\ ServiceInit(IF turn = "recovery" THEN FirstView ELSE <<>>)
    /\ RecoveryInit /\ PipelineInit /\ MapperInit

Next ==
    /\ UNCHANGED turn
    /\ \/ /\ turn = "limiter" /\ LimiterNext
          /\ UNCHANGED <<mediaVars, packageVars, toolVars, serviceVars, runVars,
                         pipelineVars, mapperVars>>
       \/ /\ turn = "media" /\ MediaNext
          /\ UNCHANGED <<limiterVars, packageVars, toolVars, serviceVars, runVars,
                         pipelineVars, mapperVars>>
       \/ /\ turn = "package" /\ PackageNext
          /\ UNCHANGED <<limiterVars, mediaVars, toolVars, serviceVars, runVars,
                         pipelineVars, mapperVars>>
       \/ /\ turn = "tool" /\ ToolNext
          /\ UNCHANGED <<limiterVars, mediaVars, packageVars, serviceVars, runVars,
                         pipelineVars, mapperVars>>
       \/ /\ turn = "recovery"
          /\ RecoveryNext \/ (ServiceNext /\ UNCHANGED runVars)
          /\ UNCHANGED <<limiterVars, mediaVars, packageVars, toolVars,
                         pipelineVars, mapperVars>>
       \/ /\ turn = "pipeline"
          /\ PipelineNext \/ (ImportArrives /\ UNCHANGED pipelineVars)
          /\ UNCHANGED <<limiterVars, mediaVars, packageVars, toolVars, runVars, mapperVars>>
       \/ /\ turn = "mapper" /\ MapperNext
          /\ UNCHANGED <<limiterVars, mediaVars, packageVars, toolVars, serviceVars,
                         runVars, pipelineVars>>

Spec == Init /\ [][Next]_vars

ToolsTypeOK == LimiterTypeOK /\ MediaTypeOK /\ PackageTypeOK /\ ToolTypeOK
               /\ RecoveryTypeOK /\ PipelineTypeOK /\ MapperTypeOK
=============================================================================
