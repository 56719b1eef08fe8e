SPECIFICATION AnnotateSpec
CONSTANTS
    v1 = v1
    v2 = v2
    v3 = v3
    v4 = v4
    app = app
    tool = tool
    docker = docker
    index = index
    image = image
    att = att
    Tag = {v1, v2, v3, v4}
    Digest = {app, tool, docker, index, image, att}
    Attachment = att
    NoCutoff = NoCutoff
    PageSize = 2
    Calls <- AllCalls
\* The run ends.
CHECK_DEADLOCK FALSE
INVARIANTS
    AnnotatedOnOnePage
    AnnotationsAreNotAnnotated
    AnnotationsAreCounted
PROPERTIES
    AnnotateReturns
