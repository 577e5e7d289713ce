SPECIFICATION Spec
CONSTANTS
    q8 = q8
    f16 = f16
    other = other
    weights8 = weights8
    weights16 = weights16
    sidecar = sidecar
    weights = weights
    sh1 = sh1
    sh2 = sh2
    NoDir = NoDir
    Procs = {sh1}
    Packages = {q8, f16, other}
    Files = {weights8, weights16, sidecar, weights}
    Needs <- MCNeeds
    Target <- MCTarget
INVARIANTS
    InstallIsComplete
    NoStrandedFiles
PROPERTIES
    SiblingsStayInstalled
