\* Explicit, static pattern, implicit, suffix and double colon rules.
CONSTANTS
    Ext <- MCExt
    Special = {".PHONY", ".SUFFIXES"}
    Makefiles <- MCMakefiles
    Slashed <- MCSlashed
    Writable <- MCWritable
SPECIFICATION GSpec
INVARIANTS TypeOK RuleRight EdgesRight VarsInherited FileRight NinjaRight
