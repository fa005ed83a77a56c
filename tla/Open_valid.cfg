SPECIFICATION Spec
CONSTANT Hosts <- AllHosts
INVARIANTS AlwaysValid NativeIsSecure AsPythonElsewhere RefusalsLeaveNoTrace DescriptorsNameNoFile MakefilesAsPython
CHECK_DEADLOCK FALSE
