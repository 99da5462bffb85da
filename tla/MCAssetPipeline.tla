-------------------------- MODULE MCAssetPipeline --------------------------
\* AssetPipeline on small instances: workers and files are interchangeable, and how often a
\* finished job was claimed is never looked at again.
EXTENDS AssetPipeline, TLC

Symmetry == Permutations(Worker) \cup Permutations(File)

View == <<[j \in Job |-> IF row[j].status \in {"succeeded", "dead"} THEN row[j].status ELSE row[j]],
          run, faults, kind, pc, todo, asset, store, put, del, sweep>>
=============================================================================
